---- MODULE Spec2Model ----
(***************************************************************************)
(* Model of the Tango transport layer of ophyd-async                       *)
(* (src/src/ophyd_async/tango/_backend/_tango_transport.py):               *)
(* the AttributeProxy / CommandProxy endpoint proxies and the              *)
(* TangoTransport that owns one or two of them, together with the part of  *)
(* the Tango device server and client library they talk to (attribute      *)
(* value and set point, event subscriptions, asynchronous requests).       *)
(***************************************************************************)
EXTENDS Integers, FiniteSets, Sequences, TLC

(* ------------------------------------------------------------------ *)
(* Bounds of the model                                                 *)
(* ------------------------------------------------------------------ *)
\* values an attribute or a command argument/result ranges over: 0..MaxVal
MaxVal == 1
\* user callbacks are numbered 1..MaxCb
MaxCb == 2
\* the client library hands out at most MaxEid event ids in one behaviour
MaxEid == 2
\* callback invocations counted up to MaxCalls
MaxCalls == 2
\* the clock runs 0..MaxTime (it saturates there)
MaxTime == 1
\* timeouts given to put range over 0..MaxTimeout
MaxTimeout == 1
\* the client library sends at most MaxAsynch asynchronous requests
MaxAsynch == 1

(* ------------------------------------------------------------------ *)
(* Python values                                                       *)
(* ------------------------------------------------------------------ *)
\* Python's None, kept apart from every value, callback and event id
None == -1

Values == 0..MaxVal
Callbacks == 1..MaxCb
Times == 0..MaxTime

\* tango.AttrQuality.ATTR_VALID, the literal 0 of CommandProxy's readings
ATTR_VALID == 0
\* tango.AttrQuality.ATTR_INVALID, a quality other than valid
ATTR_INVALID == 1
Qualities == {ATTR_VALID, ATTR_INVALID}

\* Python truthiness of an Optional[int] / Optional[callable] / Optional[float]
bool(x) == x # None /\ x # 0

(* ------------------------------------------------------------------ *)
(* The device: its member lists (what get_tango_trl consults)          *)
(* ------------------------------------------------------------------ *)
attribute_list == {"a1"}
command_list == {"c1"}
pipe_list == {"p1"}

\* the DeviceProxy of the device: what get_attribute_list(), get_command_list()
\* and get_pipe_list() return
DeviceProxy(attributes, commands, pipes) ==
    [attribute_list |-> attributes, command_list |-> commands, pipe_list |-> pipes]
TangoDevice == DeviceProxy(attribute_list, command_list, pipe_list)

\* locators a Transport is constructed with: an attribute and a command
TRLs == {"a1", "c1"}
\* ... and, besides, a pipe and a name the device does not have
AllTRLs == TRLs \cup {"p1", "x1"}

Reading(v, t, q) == [value |-> v, timestamp |-> t, alarm_severity |-> q]

\* class attributes: AttributeProxy._eid / _event_callback = None,
\* CommandProxy._last_reading = dict(value=None, timestamp=0, alarm_severity=0)
NewProxy(cls) ==
    [cls |-> cls, _eid |-> None, _event_callback |-> None,
     _last_reading |-> Reading(None, 0, ATTR_VALID)]

\* get_tango_trl: attribute list first, then command list, then pipe list;
\* `raise NotImplemented(...)` is a TypeError (NotImplemented is not callable)
get_tango_trl(trl_name, device_proxy) ==
    IF trl_name \in device_proxy.attribute_list
    THEN [out |-> "ok", proxy |-> NewProxy("AttributeProxy")]
    ELSE IF trl_name \in device_proxy.command_list
    THEN [out |-> "ok", proxy |-> NewProxy("CommandProxy")]
    ELSE IF trl_name \in device_proxy.pipe_list
    THEN [out |-> "TypeError", proxy |-> NewProxy("DeviceProxy")]
    ELSE [out |-> "RuntimeError", proxy |-> NewProxy("DeviceProxy")]

(* ------------------------------------------------------------------ *)
(* Type mapper: get_pyton_type                                         *)
(* ------------------------------------------------------------------ *)
\* tango.CmdArgType tags, by the families tango.utils tells apart
ScalarIntTypes == {"DevShort", "DevUShort", "DevLong", "DevULong", "DevLong64",
                   "DevULong64"}
ArrayIntTypes == {"DevVarShortArray", "DevVarUShortArray", "DevVarLongArray",
                  "DevVarULongArray", "DevVarLong64Array", "DevVarULong64Array"}
ScalarFloatTypes == {"DevFloat", "DevDouble"}
ArrayFloatTypes == {"DevVarFloatArray", "DevVarDoubleArray"}
ScalarBoolTypes == {"DevBoolean"}
ArrayBoolTypes == {"DevVarBooleanArray"}
ScalarStrTypes == {"DevString", "ConstDevString"}
ArrayStrTypes == {"DevVarStringArray"}
BinaryTypes == {"DevEncoded", "DevVarCharArray"}
ArrayTypes ==
    ArrayIntTypes \cup ArrayFloatTypes \cup ArrayStrTypes \cup ArrayBoolTypes
    \cup {"DevVarCharArray", "DevVarDoubleStringArray", "DevVarLongStringArray"}

\* every tag a device server may declare
CmdArgType ==
    ScalarIntTypes \cup ScalarFloatTypes \cup ScalarBoolTypes \cup ScalarStrTypes
    \cup BinaryTypes \cup ArrayTypes
    \cup {"DevEnum", "DevState", "DevUChar", "DevVoid", "DevPipeBlob"}

\* tango.utils.is_array(t), is_int(t, True), is_float(t, True), is_bool(t, True),
\* is_str(t, True), is_binary(t, True)
is_array(tango_type) == tango_type \in ArrayTypes
is_int(tango_type) == tango_type \in ScalarIntTypes \cup ArrayIntTypes
is_float(tango_type) == tango_type \in ScalarFloatTypes \cup ArrayFloatTypes
is_bool(tango_type) == tango_type \in ScalarBoolTypes \cup ArrayBoolTypes
is_str(tango_type) == tango_type \in ScalarStrTypes \cup ArrayStrTypes
is_binary_scalar_only(tango_type) == tango_type = "DevEncoded"
is_binary(tango_type) == tango_type \in BinaryTypes

\* the (array, dtype, descr) tuple get_pyton_type returns
TypeOf(array, dtype, descr) ==
    [out |-> "ok", array |-> array, dtype |-> dtype, descr |-> descr]

\* get_pyton_type: the first family the tag belongs to decides;
\* a tag of no family raises TypeError("Unknown TangoType")
get_pyton_type(tango_type) ==
    LET array == is_array(tango_type)
    IN  IF is_int(tango_type) THEN TypeOf(array, "int", "integer")
        ELSE IF is_float(tango_type) THEN TypeOf(array, "float", "number")
        ELSE IF is_bool(tango_type) THEN TypeOf(array, "bool", "integer")
        ELSE IF is_str(tango_type) THEN TypeOf(array, "str", "string")
        ELSE IF is_binary(tango_type) THEN TypeOf(array, "list[str]", "string")
        ELSE IF tango_type = "DevEnum" THEN TypeOf(array, "Enum", "string")
        ELSE IF tango_type = "DevState" THEN TypeOf(array, "DevState", "string")
        ELSE IF tango_type = "DevUChar" THEN TypeOf(array, "int", "integer")
        ELSE IF tango_type = "DevVoid" THEN TypeOf(array, "NoneType", "string")
        ELSE [out |-> "TypeError", array |-> array, dtype |-> "", descr |-> ""]

(* ------------------------------------------------------------------ *)
(* Descriptor builder: get_trl_descriptor                              *)
(* ------------------------------------------------------------------ *)
\* largest max_dim_x / max_dim_y a device declares
MaxDim == 2
\* how many times connect() is called on one Transport
MaxConnects == 2
\* execution contexts (threads with their event loop) that call the proxies
MaxContexts == 2
\* how many executors are created for one context
MaxInstalls == 2

\* np.Inf, the dimension of a config that declares none (CommandInfo):
\* above every dimension a device declares
Inf == MaxDim + 1

\* tango.AttrDataFormat
AttrDataFormat == {"SCALAR", "SPECTRUM", "IMAGE"}

\* DevState.names.keys(), the fixed list of device state names
DevStateNames ==
    <<"ON", "OFF", "CLOSE", "OPEN", "INSERT", "EXTRACT", "MOVING", "STANDBY",
      "FAULT", "INIT", "RUNNING", "ALARM", "DISABLE", "UNKNOWN">>

\* what get_config() returns: an AttributeInfoEx (data_type, data_format,
\* max_dim_x, max_dim_y, enum_labels) or a CommandInfo (in_type, out_type);
\* the fields a class does not have are left empty
AttributeInfoEx(data_type, data_format, max_dim_x, max_dim_y, enum_labels) ==
    [cls |-> "AttributeInfoEx", data_type |-> data_type, data_format |-> data_format,
     max_dim_x |-> max_dim_x, max_dim_y |-> max_dim_y, enum_labels |-> enum_labels,
     in_type |-> "", out_type |-> ""]
CommandInfo(in_type, out_type) ==
    [cls |-> "CommandInfo", data_type |-> "", data_format |-> "",
     max_dim_x |-> Inf, max_dim_y |-> Inf, enum_labels |-> <<>>,
     in_type |-> in_type, out_type |-> out_type]

\* the datatype a Transport is constructed with: no type ("None"), a Python
\* scalar type, an Enum subclass with the member names A and B, DevState, or
\* a numpy array type
Datatypes == {"None", "int", "float", "str", "EnumAB", "DevState",
              "NDArray[int]", "NDArray[float]"}
Range(seq) == {seq[i] : i \in DOMAIN seq}
\* the member names of an enumeration datatype
EnumNames(datatype) ==
    IF datatype = "EnumAB" THEN {"A", "B"}
    ELSE IF datatype = "DevState" THEN Range(DevStateNames)
    ELSE {}

\* get_dtype_extended(datatype): the element type of an array type, nothing
\* ("") for any other type
get_dtype_extended(datatype) ==
    IF datatype = "NDArray[int]" THEN "int"
    ELSE IF datatype = "NDArray[float]" THEN "float"
    ELSE ""

\* issubclass(tr_dtype, datatype) for the scalar dtypes of get_pyton_type;
\* where issubclass itself raises (its arguments are not classes) the
\* outcome is a TypeError as well
issubclass(tr_dtype, datatype) ==
    \/ tr_dtype = datatype /\ tr_dtype \in {"int", "float", "str"}
    \/ tr_dtype = "bool" /\ datatype = "int"

\* a descriptor: the dict with source, dtype, shape and, for enumerations and
\* states, choices
Descriptor(source, dtype, shape) ==
    [keys |-> {"source", "dtype", "shape"}, source |-> source, dtype |-> dtype,
     shape |-> shape, choices |-> <<>>]
DescriptorWithChoices(source, dtype, shape, choices) ==
    [keys |-> {"source", "dtype", "shape", "choices"}, source |-> source,
     dtype |-> dtype, shape |-> shape, choices |-> choices]
\* the empty dict TangoTransport.descriptor starts as
NoDescriptor ==
    [keys |-> {}, source |-> "", dtype |-> "", shape |-> <<>>, choices |-> <<>>]

Raise(exc) == [out |-> exc, val |-> NoDescriptor]
Return(val) == [out |-> "ok", val |-> val]

\* the type a CommandInfo is mapped by: in_type unless it is DevVoid
command_type(config) ==
    IF config.in_type # "DevVoid" THEN config.in_type ELSE config.out_type

\* the condition of `raise RuntimeError("Commands with different in and out
\* dtypes are not supported")`
command_mismatch_never(config) == FALSE
command_mismatch(config) ==
    /\ config.in_type # "DevVoid"
    /\ config.out_type # "DevVoid"
    /\ config.in_type # config.out_type

\* the (format, dtype, descr) entry the loop of get_trl_descriptor stores for
\* one config, or the exception the loop raises on it
TypeId(format, dtype, descr) ==
    [out |-> "ok", format |-> format, dtype |-> dtype, descr |-> descr]
NoTypeId(exc) == [out |-> exc, format |-> "", dtype |-> "", descr |-> ""]

typeid_without_format(config) ==
    LET t == get_pyton_type(IF config.cls = "AttributeInfoEx"
                            THEN config.data_type ELSE command_type(config))
    IN  IF config.cls = "CommandInfo" /\ command_mismatch(config)
        THEN NoTypeId("RuntimeError")
        ELSE IF t.out # "ok" THEN NoTypeId("TypeError")
        ELSE TypeId("SCALAR", t.dtype, t.descr)
typeid(config) ==
    IF config.cls = "AttributeInfoEx"
    THEN LET t == get_pyton_type(config.data_type)
         IN  IF t.out # "ok" THEN NoTypeId("TypeError")
             ELSE TypeId(config.data_format, t.dtype, t.descr)
    ELSE IF command_mismatch(config) THEN NoTypeId("RuntimeError")
    ELSE LET t == get_pyton_type(command_type(config))
         IN  IF t.out # "ok" THEN NoTypeId("TypeError")
             ELSE TypeId(IF t.array THEN "SPECTRUM" ELSE "SCALAR", t.dtype, t.descr)

\* get_unique(tr_dtype, "typeids") of ophyd_async.core: the one value all
\* entries share, a TypeError when they differ
get_unique(values) ==
    IF Cardinality(Range(values)) > 1 THEN NoTypeId("TypeError") ELSE values[1]

\* shape of an array descriptor: [max_x] for a SPECTRUM, [max_y, max_x] for
\* an IMAGE
array_shape_x_first(tr_format, max_x, max_y) ==
    IF tr_format = "SPECTRUM" THEN <<max_x>> ELSE <<max_x, max_y>>
array_shape(tr_format, max_x, max_y) ==
    IF tr_format = "SPECTRUM" THEN <<max_x>> ELSE <<max_y, max_x>>

\* get_trl_descriptor(datatype, tango_resource, tr_configs); tr_configs is the
\* dict of configs in insertion order, a sequence of [k |-> locator, v |-> config]
get_trl_descriptor(datatype, tango_resource, tr_configs) ==
    LET tr_dtype == [i \in DOMAIN tr_configs |-> typeid(tr_configs[i].v)]
        raising == {i \in DOMAIN tr_configs : tr_dtype[i].out # "ok"}
        first_raising == CHOOSE i \in raising : \A j \in raising : i <= j
        unique == get_unique(tr_dtype)
        trl_config == tr_configs[1].v
        is_attr == trl_config.cls = "AttributeInfoEx"
        max_x == IF is_attr THEN trl_config.max_dim_x ELSE Inf
        max_y == IF is_attr THEN trl_config.max_dim_y ELSE Inf
        trl_choices == IF is_attr THEN trl_config.enum_labels ELSE <<>>
        given == datatype # "None"
    IN  IF raising # {} THEN Raise(tr_dtype[first_raising].out)
        ELSE IF unique.out # "ok" THEN Raise("TypeError")
        ELSE IF unique.format \in {"SPECTRUM", "IMAGE"}
        THEN IF given /\ get_dtype_extended(datatype) = "" THEN Raise("TypeError")
             ELSE IF given /\ get_dtype_extended(datatype) # unique.dtype
             THEN Raise("TypeError")
             ELSE Return(Descriptor(tango_resource, "array",
                                    array_shape(unique.format, max_x, max_y)))
        ELSE IF unique.dtype \in {"Enum", "DevState"}
        THEN IF given /\ datatype \notin {"EnumAB", "DevState"} THEN Raise("TypeError")
             ELSE IF /\ given
                     /\ unique.dtype = "Enum"
                     /\ is_attr
                     /\ EnumNames(datatype) # Range(trl_choices)
             THEN Raise("TypeError")
             ELSE Return(DescriptorWithChoices(
                            tango_resource, "string", <<>>,
                            IF unique.dtype = "DevState"
                            THEN DevStateNames ELSE trl_choices))
        ELSE IF given /\ ~issubclass(unique.dtype, datatype) THEN Raise("TypeError")
        ELSE Return(Descriptor(tango_resource, unique.descr, <<>>))

VARIABLES
    read_trl,            \* TangoTransport.read_trl
    write_trl,           \* TangoTransport.write_trl
    proxies,             \* TangoTransport.proxies: locator -> proxy object
    attr_value,          \* device: current (read) value of each attribute
    attr_w_value,        \* device: last written value (set point) of each attribute
    cmd_returned,        \* device: what the last executed command invocation returned
    since_put,           \* history: what happened to each attribute since the last
                         \* synchronous put on it returned
    subs,                \* client library: live event subscriptions
    subscribe_event_id,  \* client library: last event id handed out
    pending,             \* asynchronous requests sent, with their replies
    asynch_id,           \* client library: last asynchronous request id handed out
    now,                 \* wall clock
    ncalls,              \* number of user callback invocations so far
    last_call,           \* the last user callback invocation
    put_task,            \* the put() coroutine suspended in its reply loop
    datatype,            \* TangoTransport.datatype
    trl_configs,         \* TangoTransport.trl_configs, in insertion order
    descriptor,          \* TangoTransport.descriptor
    dev_config,          \* device: the config of each attribute and command
    connect_task,        \* the connect() coroutine and its two sub-coroutines
    polling,             \* polling configuration and task of the read-side proxy
    probe,               \* the last call of a module-level function
    executor,            \* client library: the global executor
    last                 \* the last completed call and how it ended

vars == <<read_trl, write_trl, proxies, attr_value, attr_w_value, cmd_returned,
          since_put, subs, subscribe_event_id, pending, asynch_id, now, ncalls, last_call,
          put_task, datatype, trl_configs, descriptor, dev_config, connect_task,
          polling, probe, executor, last>>

\* what TangoTransport.__init__ sets and no method changes, and the global
\* executor, which a call made in the executor's own context leaves alone
transport_init_vars == <<read_trl, write_trl, datatype, dev_config>>
init_vars == <<transport_init_vars, executor>>
\* what only connect() changes
connect_vars == <<trl_configs, descriptor, connect_task>>
transport_vars == <<init_vars, connect_vars, polling, probe>>
device_vars == <<attr_value, attr_w_value, cmd_returned, since_put>>
async_vars == <<pending, asynch_id>>
event_vars == <<subs, subscribe_event_id>>
call_vars == <<ncalls, last_call>>

NoReading == Reading(None, 0, ATTR_VALID)
NoCall == [cb |-> None, reading |-> NoReading, value |-> None]
NoEvent == [err |-> FALSE, value |-> None, quality |-> ATTR_VALID, date |-> 0]
\* history of an attribute: v, the value of the last synchronous put that
\* returned with no write after it (None: there is none); drifted, whether the
\* device changed the read value since; seen, whether a get() returned a value
\* other than v since
NoPut == [v |-> None, drifted |-> FALSE, seen |-> FALSE]
NoTask == [pc |-> "idle", p |-> "", rid |-> None, timeout |-> None, t0 |-> 0]

\* what a call left behind: its name, the proxy it ran on, its arguments, the
\* exception class it raised ("ok" when it returned) and what it returned
Ret == [op |-> "", p |-> "", arg |-> None, wait |-> TRUE, ev |-> NoEvent,
        out |-> "ok", msg |-> "", val |-> None, reading |-> NoReading,
        descriptor |-> NoDescriptor]

\* the configs of the device's members: a scalar integer attribute and a
\* command taking and returning an integer
DefaultConfig ==
    [m \in attribute_list \cup command_list |->
        IF m \in attribute_list
        THEN AttributeInfoEx("DevLong", "SCALAR", 1, 0, <<>>)
        ELSE CommandInfo("DevLong", "DevLong")]

\* the two coroutines connect() runs, named as connect() passes them to
\* wait_for_connection
Sides == {"read_trl", "write_trl"}

\* connect(): state, where the Transport is in its life (unconnected,
\* connecting, connected, failed); co, where each coroutine is (none, resolve,
\* get_config, done, raised) and exc, what it raised; nresolve and nconfig, how
\* many get_tango_trl and get_config calls were made; cancelled, whether it
\* was cancelled; attempt, how many times connect() was called; fault,
\* whether the device was unreachable or the call cancelled in this attempt
NoConnect ==
    [state |-> "unconnected", co |-> [k \in Sides |-> "none"],
     exc |-> [k \in Sides |-> ""], nresolve |-> 0, nconfig |-> 0,
     cancelled |-> FALSE, attempt |-> 0, fault |-> FALSE]

\* polling of the read-side attribute proxy: the configuration set_polling
\* stores, the periodic task ("none" or "running"), the value the task saw
\* last and whether the task has invoked the callback
NoPolling ==
    [_allow_polling |-> FALSE, _polling_period |-> None, _abs_change |-> None,
     _rel_change |-> None, _poll_task |-> "none", _last_value |-> None,
     delivered |-> FALSE]

\* no module-level function called yet
\* execution contexts; the Transport and its device proxy are made in the
\* first one
Contexts == 1..MaxContexts
MainContext == 1

\* the global executor of the client library: owner, the context it was
\* created in; installed, how many executors were created for each context;
\* caller and checked, the context of the last proxy call and whether that
\* call ran the check of ensure_proper_executor. The library created the
\* executor of the main context when the device proxy was made there.
OwnExecutor ==
    [owner |-> MainContext,
     installed |-> [c \in Contexts |-> IF c = MainContext THEN 1 ELSE 0],
     caller |-> MainContext, checked |-> FALSE]

NoProbe ==
    [fn |-> "", tango_type |-> "", type |-> TypeOf(FALSE, "", ""),
     trl_name |-> "", device_proxy |-> DeviceProxy({}, {}, {}),
     resolved |-> [out |-> "", proxy |-> NewProxy("DeviceProxy")],
     datatype |-> "None", tr_configs |-> <<>>, built |-> Raise("")]

\* TangoTransport.__init__: both locators map to the device proxy passed in
Init ==
    /\ read_trl \in TRLs
    /\ write_trl \in TRLs
    /\ proxies = [t \in {read_trl, write_trl} |-> NewProxy("DeviceProxy")]
    /\ attr_value \in [attribute_list -> Values]
    /\ attr_w_value = attr_value
    /\ subs = {}
    /\ subscribe_event_id = 0
    /\ cmd_returned = None
    /\ since_put = [a \in attribute_list |-> NoPut]
    /\ pending = {}
    /\ asynch_id = 0
    /\ now = 0
    /\ ncalls = 0
    /\ last_call = NoCall
    /\ put_task = NoTask
    /\ datatype = "None"
    /\ dev_config = DefaultConfig
    /\ trl_configs = <<>>
    /\ descriptor = NoDescriptor
    /\ connect_task = NoConnect
    /\ polling = NoPolling
    /\ probe = NoProbe
    /\ executor = OwnExecutor
    /\ last = [Ret EXCEPT !.op = "__init__"]

Resolved(p) == p \in DOMAIN proxies /\ proxies[p].cls \in {"AttributeProxy", "CommandProxy"}
IsAttribute(p) == p \in DOMAIN proxies /\ proxies[p].cls = "AttributeProxy"
IsCommand(p) == p \in DOMAIN proxies /\ proxies[p].cls = "CommandProxy"

(* ------------------------------------------------------------------ *)
(* TangoTransport.connect                                              *)
(* ------------------------------------------------------------------ *)
\* _connect_and_store_config for every distinct locator: the proxy object of
\* the locator is replaced by what get_tango_trl resolves it to
\* `if self.read_trl != self.write_trl`: the coroutines connect() runs
connect_sides_both == Sides
connect_sides == IF read_trl # write_trl THEN Sides ELSE {"read_trl"}

Side(k) == IF k = "read_trl" THEN read_trl ELSE write_trl

\* `self.trl_configs[trl] = config`: a dict keeps its keys in insertion order
dict_set(d, k, v) ==
    IF \E i \in DOMAIN d : d[i].k = k
    THEN [i \in DOMAIN d |-> IF d[i].k = k THEN [k |-> k, v |-> v] ELSE d[i]]
    ELSE Append(d, [k |-> k, v |-> v])

\* a connect() that succeeds, run to its end with nothing else in between:
\* _connect_and_store_config for every distinct locator (the proxy object of
\* the locator is replaced by what get_tango_trl resolves it to and its config
\* is stored, the two configs in either order), then the descriptor is built
TangoTransport_connect ==
    /\ connect_task.state = "unconnected"
    /\ \A t \in DOMAIN proxies : proxies[t].cls = "DeviceProxy"
    /\ \A t \in DOMAIN proxies : get_tango_trl(t, TangoDevice).out = "ok"
    /\ proxies' = [t \in DOMAIN proxies |-> get_tango_trl(t, TangoDevice).proxy]
    /\ \E first \in connect_sides :
          trl_configs' =
              IF connect_sides = {"read_trl"}
              THEN dict_set(trl_configs, read_trl, dev_config[read_trl])
              ELSE LET second == CHOOSE k \in Sides : k # first
                   IN  dict_set(dict_set(trl_configs, Side(first),
                                         dev_config[Side(first)]),
                                Side(second), dev_config[Side(second)])
    /\ get_trl_descriptor(datatype, read_trl, trl_configs').out = "ok"
    /\ descriptor' = get_trl_descriptor(datatype, read_trl, trl_configs').val
    /\ connect_task' =
          [NoConnect EXCEPT !.state = "connected",
                            !.co = [k \in Sides |->
                                      IF k \in connect_sides THEN "done" ELSE "none"],
                            !.nresolve = Cardinality(connect_sides),
                            !.nconfig = Cardinality(connect_sides)]
    /\ last' = [Ret EXCEPT !.op = "connect"]
    /\ UNCHANGED <<init_vars, polling, probe, device_vars, event_vars, async_vars,
                   now, call_vars, put_task>>

(* ------------------------------------------------------------------ *)
(* Subscription: has_subscription / subscribe_callback /               *)
(* unsubscribe_callback / _event_processor                             *)
(* ------------------------------------------------------------------ *)
\* TangoProxy.support_events = False, AttributeProxy.support_events = True,
\* CommandProxy.support_events = False
support_events_all(p) == TRUE
support_events(p) == proxies[p].cls = "AttributeProxy"

\* AttributeProxy.has_subscription: bool(self._eid); the TangoProxy base
\* method (inherited by CommandProxy) has no body and returns None
has_subscription_never(p) == FALSE
has_subscription_by_callback(p) ==
    proxies[p].cls = "AttributeProxy" /\ bool(proxies[p]._event_callback)
has_subscription(p) ==
    proxies[p].cls = "AttributeProxy" /\ bool(proxies[p]._eid)

\* `if not self._eid` of subscribe_callback: a server subscription is opened
\* only when no handle is held
must_subscribe_always(p) == TRUE
must_subscribe(p) == ~bool(proxies[p]._eid)

\* the client library's subscribe_event: the next event id, numbered from 1
next_event_id == subscribe_event_id + 1

\* subscribe_callback(callback) on proxy p. accept: whether the server accepts
\* a subscription it is asked for (subscribe_event raises otherwise).
\* On a CommandProxy this is TangoProxy's empty method.
subscribe_raises(p, accept) ==
    proxies[p].cls = "AttributeProxy" /\ must_subscribe(p) /\ ~accept

subscribe_callback(p, callback, accept) ==
    IF proxies[p].cls # "AttributeProxy"
    THEN accept /\ UNCHANGED <<proxies, event_vars>>
    ELSE IF ~must_subscribe(p)
    THEN /\ accept
         /\ proxies' = [proxies EXCEPT ![p]._event_callback = callback]
         /\ UNCHANGED event_vars
    ELSE IF ~accept
    THEN /\ proxies' = [proxies EXCEPT ![p]._event_callback = callback]
         /\ UNCHANGED event_vars
    ELSE /\ subscribe_event_id < MaxEid
         /\ proxies' = [proxies EXCEPT ![p]._event_callback = callback,
                                       ![p]._eid = next_event_id]
         /\ subs' = subs \cup {[eid |-> next_event_id, p |-> p]}
         /\ subscribe_event_id' = next_event_id

\* `self._eid = None` of unsubscribe_callback: the handle the proxy keeps
\* once the server subscription is released
eid_after_release_kept(p) == proxies[p]._eid
eid_after_release(p) == None

\* unsubscribe_callback() on proxy p: `if self._eid` guards the server call
unsubscribe_callback(p) ==
    IF proxies[p].cls # "AttributeProxy"
    THEN UNCHANGED <<proxies, event_vars>>
    ELSE /\ proxies' = [proxies EXCEPT ![p]._event_callback = None,
                                       ![p]._eid = IF bool(proxies[p]._eid)
                                                   THEN eid_after_release(p)
                                                   ELSE proxies[p]._eid]
         /\ subs' = IF bool(proxies[p]._eid)
                    THEN {s \in subs : s.eid # proxies[p]._eid}
                    ELSE subs
         /\ UNCHANGED subscribe_event_id

\* direct calls on a proxy object
TangoProxy_subscribe_callback(p, callback) ==
    /\ Resolved(p)
    /\ \E accept \in BOOLEAN :
          /\ subscribe_callback(p, callback, accept)
          /\ last' = [Ret EXCEPT !.op = "subscribe_callback", !.p = p,
                                 !.arg = callback,
                                 !.out = IF subscribe_raises(p, accept)
                                         THEN "DevFailed" ELSE "ok"]
    /\ UNCHANGED <<transport_vars, device_vars, async_vars, now, call_vars, put_task>>

TangoProxy_unsubscribe_callback(p) ==
    /\ Resolved(p)
    /\ unsubscribe_callback(p)
    /\ last' = [Ret EXCEPT !.op = "unsubscribe_callback", !.p = p]
    /\ UNCHANGED <<transport_vars, device_vars, async_vars, now, call_vars, put_task>>

\* TangoTransport.set_callback
TangoTransport_set_callback(callback) ==
    LET p == read_trl
        r == [Ret EXCEPT !.op = "set_callback", !.p = p, !.arg = callback]
    IN  /\ IF ~Resolved(p)
           THEN /\ last' = [r EXCEPT !.out = "AttributeError"]
                /\ UNCHANGED <<proxies, event_vars>>
           ELSE IF ~support_events(p)
           THEN /\ last' = [r EXCEPT !.out = "AssertionError",
                                     !.msg = "does not support events"]
                /\ UNCHANGED <<proxies, event_vars>>
           ELSE IF bool(callback)
           THEN IF has_subscription(p)
                THEN /\ last' = [r EXCEPT !.out = "AssertionError",
                                          !.msg = "already set"]
                     /\ UNCHANGED <<proxies, event_vars>>
                ELSE \E accept \in BOOLEAN :
                        /\ subscribe_callback(p, callback, accept)
                        /\ last' = IF subscribe_raises(p, accept)
                                   THEN [r EXCEPT !.out = "RuntimeError",
                                                  !.msg = "use as non-cached"]
                                   ELSE r
           ELSE /\ unsubscribe_callback(p)
                /\ last' = r
        /\ UNCHANGED <<transport_vars, device_vars, async_vars, now, call_vars, put_task>>

\* AttributeProxy._event_processor(event), run by the client library for a
\* live subscription of proxy p
event_dropped_never(event) == FALSE
event_dropped(event) == event.err

event_reading(p, event) ==
    Reading(event.value, event.date, event.quality)

AttributeProxy_event_processor(p, event) ==
    /\ IF event_dropped(event)
       THEN /\ last' = [Ret EXCEPT !.op = "_event_processor", !.p = p, !.ev = event]
            /\ UNCHANGED call_vars
       ELSE IF proxies[p]._event_callback = None
       THEN /\ last' = [Ret EXCEPT !.op = "_event_processor", !.p = p, !.ev = event,
                                   !.out = "TypeError"]
            /\ UNCHANGED call_vars
       ELSE /\ ncalls < MaxCalls
            /\ ncalls' = ncalls + 1
            /\ last_call' = [cb |-> proxies[p]._event_callback,
                             reading |-> event_reading(p, event),
                             value |-> event.value]
            /\ last' = [Ret EXCEPT !.op = "_event_processor", !.p = p, !.ev = event]
    /\ UNCHANGED <<transport_vars, proxies, device_vars, event_vars, async_vars, now,
                   put_task>>

\* the device pushes a change event (or the library an error event) to a live
\* subscription; the event is dated by the clock
push_event ==
    \E s \in subs, err \in BOOLEAN, q \in Qualities :
        AttributeProxy_event_processor(
            s.p, [err |-> err, value |-> IF err THEN None ELSE attr_value[s.p],
                  quality |-> q, date |-> now])

\* the device itself changes the read value of an attribute (not a write)
device_change ==
    /\ \E a \in attribute_list, v \in Values :
          /\ attr_value[a] # v
          /\ attr_value' = [attr_value EXCEPT ![a] = v]
          /\ since_put' = [since_put EXCEPT ![a].drifted = since_put[a].v # None]
    /\ last' = [Ret EXCEPT !.op = "device_change"]
    /\ UNCHANGED <<transport_vars, proxies, attr_w_value, cmd_returned, event_vars,
                   async_vars, now, call_vars, put_task>>

(* ------------------------------------------------------------------ *)
(* Reading and writing: get / get_w_value / put / get_reading          *)
(* ------------------------------------------------------------------ *)
\* A_BIT = 1e-5: the time unit of the clock is one A_BIT
A_BIT == 1

\* timeout: Optional[float], in units of A_BIT
Timeouts == {None} \cup (0..MaxTimeout)

\* attr.value / attr.w_value of read_attribute
read_value_as_w(a) == attr_w_value[a]
read_value(a) == attr_value[a]

read_w_value_as_value(a) == attr_value[a]
read_w_value(a) == attr_w_value[a]

\* the device executes a write of attribute a: it records the set point and
\* reads back what was written
write_attribute(a, value) ==
    /\ attr_value' = [attr_value EXCEPT ![a] = value]
    /\ attr_w_value' = [attr_w_value EXCEPT ![a] = value]
    /\ UNCHANGED cmd_returned

\* the request of id rid among the asynchronous requests
Request(rid) == CHOOSE r \in pending : r.rid = rid

\* write_attribute_asynch / command_inout_asynch: the request is sent and its
\* id returned
send_asynch(p, value) ==
    /\ asynch_id < MaxAsynch
    /\ asynch_id' = asynch_id + 1
    /\ pending' = pending \cup {[rid |-> asynch_id + 1, p |-> p, value |-> value,
                                 ready |-> FALSE, val |-> None]}

\* `val = await dev.write_attribute_reply(rid)` / `dev.command_inout_reply(rid)`:
\* no name `dev` exists in put's scope or in the module, so evaluating it
\* raises NameError before any reply is asked for
reply_check(task) == "NameError"

\* what put() stores after its reply loop (CommandProxy) once a check succeeded
reply_value(task) == Request(task.rid).val

\* AttributeProxy.get
AttributeProxy_get(p) ==
    /\ IsAttribute(p)
    /\ last' = [Ret EXCEPT !.op = "get", !.p = p, !.val = read_value(p)]
    /\ since_put' = [since_put EXCEPT ![p].seen =
                        \/ since_put[p].seen
                        \/ since_put[p].v # None /\ read_value(p) # since_put[p].v]
    /\ UNCHANGED <<transport_vars, proxies, attr_value, attr_w_value, cmd_returned,
                   event_vars, async_vars, now, call_vars, put_task>>

\* AttributeProxy.get_w_value
AttributeProxy_get_w_value(p) ==
    /\ IsAttribute(p)
    /\ last' = [Ret EXCEPT !.op = "get_w_value", !.p = p, !.val = read_w_value(p)]
    /\ UNCHANGED <<transport_vars, proxies, device_vars, event_vars, async_vars,
                   now, call_vars, put_task>>

\* `if wait:` of put
waits_never(wait) == FALSE
waits(wait) == wait

\* AttributeProxy.put(value, wait, timeout), up to its return or to its first
\* reply check. ok: whether the device accepts a synchronous write.
AttributeProxy_put(p, value, wait, timeout) ==
    LET r == [Ret EXCEPT !.op = "put", !.p = p, !.arg = value, !.wait = wait]
        returned == [since_put EXCEPT ![p] = IF wait
                                             THEN [NoPut EXCEPT !.v = value]
                                             ELSE since_put[p]]
    IN  /\ IsAttribute(p)
        /\ put_task.pc = "idle"
        /\ IF waits(wait)
           THEN /\ \E ok \in BOOLEAN :
                      IF ok
                      THEN /\ write_attribute(p, value)
                           /\ since_put' = returned
                           /\ last' = r
                      ELSE /\ UNCHANGED device_vars
                           /\ last' = [r EXCEPT !.out = "DevFailed"]
                /\ UNCHANGED <<async_vars, put_task>>
           ELSE /\ send_asynch(p, value)
                /\ UNCHANGED <<attr_value, attr_w_value, cmd_returned>>
                /\ IF bool(timeout)
                   THEN /\ put_task' = [pc |-> "reply", p |-> p,
                                        rid |-> asynch_id + 1,
                                        timeout |-> timeout, t0 |-> now]
                        /\ last' = [r EXCEPT !.out = "suspended"]
                        /\ UNCHANGED since_put
                   ELSE /\ UNCHANGED put_task
                        /\ since_put' = returned
                        /\ last' = r
        /\ UNCHANGED <<transport_vars, proxies, event_vars, now, call_vars>>

\* CommandProxy.get
CommandProxy_get(p) ==
    /\ IsCommand(p)
    /\ last' = [Ret EXCEPT !.op = "get", !.p = p,
                           !.val = proxies[p]._last_reading.value]
    /\ UNCHANGED <<transport_vars, proxies, device_vars, event_vars, async_vars,
                   now, call_vars, put_task>>

\* CommandProxy.get_reading
CommandProxy_get_reading(p) ==
    /\ IsCommand(p)
    /\ last' = [Ret EXCEPT !.op = "get_reading", !.p = p,
                           !.reading = proxies[p]._last_reading]
    /\ UNCHANGED <<transport_vars, proxies, device_vars, event_vars, async_vars,
                   now, call_vars, put_task>>

\* `val = await self._proxy.command_inout(...)` / `val = None`: what put()
\* stores as the value of the reading when it does not enter the reply loop
stored_val_argument(value, wait, returned) == value
stored_val(value, wait, returned) == IF wait THEN returned ELSE None

\* `self._last_reading = dict(value=val, timestamp=time.time(), alarm_severity=0)`
store_last_reading(p, val) ==
    proxies' = [proxies EXCEPT ![p]._last_reading = Reading(val, now, ATTR_VALID)]

\* CommandProxy.put(value, wait, timeout), up to its return or to its first
\* reply check. ok: whether the device executes a synchronous invocation
\* without failing; returned: what it returns.
CommandProxy_put(p, value, wait, timeout) ==
    LET r == [Ret EXCEPT !.op = "put", !.p = p, !.arg = value, !.wait = wait]
    IN  /\ IsCommand(p)
        /\ put_task.pc = "idle"
        /\ IF waits(wait)
           THEN /\ \E ok \in BOOLEAN :
                      IF ok
                      THEN \E returned \in Values :
                              /\ cmd_returned' = returned
                              /\ store_last_reading(p, stored_val(value, wait, returned))
                              /\ last' = r
                      ELSE /\ UNCHANGED <<cmd_returned, proxies>>
                           /\ last' = [r EXCEPT !.out = "DevFailed"]
                /\ UNCHANGED <<attr_value, attr_w_value, since_put, async_vars,
                               put_task>>
           ELSE /\ send_asynch(p, value)
                /\ UNCHANGED device_vars
                /\ IF bool(timeout)
                   THEN /\ put_task' = [pc |-> "reply", p |-> p,
                                        rid |-> asynch_id + 1,
                                        timeout |-> timeout, t0 |-> now]
                        /\ last' = [r EXCEPT !.out = "suspended"]
                        /\ UNCHANGED proxies
                   ELSE /\ UNCHANGED put_task
                        /\ store_last_reading(p, stored_val(value, wait, None))
                        /\ last' = r
        /\ UNCHANGED <<transport_vars, event_vars, now, call_vars>>

\* one pass of `while not finished: try: ... finished = True`: the reply check
\* of the suspended put; any exception leads to the sleep
put_reply_check ==
    LET p == put_task.p
        r == [Ret EXCEPT !.op = "put", !.p = p, !.wait = FALSE]
    IN  /\ put_task.pc = "reply"
        /\ IF reply_check(put_task) = "ok"
           THEN /\ put_task' = NoTask
                /\ last' = r
                /\ IF IsCommand(p)
                   THEN store_last_reading(p, reply_value(put_task))
                   ELSE UNCHANGED proxies
           ELSE /\ put_task' = [put_task EXCEPT !.pc = "sleep"]
                /\ last' = [Ret EXCEPT !.op = "put_reply_check", !.p = p,
                                       !.out = reply_check(put_task)]
                /\ UNCHANGED proxies
        /\ UNCHANGED <<transport_vars, device_vars, event_vars, async_vars, now,
                       call_vars>>

\* `except: await asyncio.sleep(A_BIT)`, then the loop tests `not finished`
put_sleep ==
    /\ put_task.pc = "sleep"
    /\ now' = IF now + A_BIT <= MaxTime THEN now + A_BIT ELSE now
    /\ put_task' = [put_task EXCEPT !.pc = "reply"]
    /\ last' = [Ret EXCEPT !.op = "put_sleep", !.p = put_task.p]
    /\ UNCHANGED <<transport_vars, proxies, device_vars, event_vars, async_vars,
                   call_vars>>

\* the device executes an asynchronous request; the library then holds its
\* reply in place of the request
Reply(q, val) == [rid |-> q.rid, p |-> q.p, value |-> None, ready |-> TRUE,
                  val |-> val]

device_execute ==
    /\ \E q \in pending :
          /\ ~q.ready
          /\ IF q.p \in attribute_list
             THEN /\ write_attribute(q.p, q.value)
                  /\ since_put' = [since_put EXCEPT ![q.p] = NoPut]
                  /\ pending' = (pending \ {q}) \cup {Reply(q, None)}
             ELSE \E returned \in Values :
                     /\ cmd_returned' = returned
                     /\ UNCHANGED <<attr_value, attr_w_value, since_put>>
                     /\ pending' = (pending \ {q}) \cup {Reply(q, returned)}
    /\ last' = [Ret EXCEPT !.op = "device_execute"]
    /\ UNCHANGED <<transport_vars, proxies, event_vars, asynch_id, now, call_vars,
                   put_task>>

\* a reply that holds the exception the device raised for the request
Failure == -2

\* the device fails to execute an asynchronous command request; the library
\* then holds the failure as its reply
device_execute_fails ==
    /\ \E q \in pending :
          /\ ~q.ready
          /\ q.p \in command_list
          /\ pending' = (pending \ {q}) \cup {Reply(q, Failure)}
    /\ last' = [Ret EXCEPT !.op = "device_execute_fails"]
    /\ UNCHANGED <<transport_vars, proxies, device_vars, event_vars, asynch_id, now,
                   call_vars, put_task>>

\* time passes
tick ==
    /\ now < MaxTime
    /\ now' = now + 1
    /\ last' = [Ret EXCEPT !.op = "tick"]
    /\ UNCHANGED <<transport_vars, proxies, device_vars, event_vars, async_vars,
                   call_vars, put_task>>

\* AttributeProxy.get_reading: value, time and quality of a fresh read;
\* quality is what the device reports at the read
AttributeProxy_get_reading(p) ==
    /\ IsAttribute(p)
    /\ \E quality \in Qualities :
          last' = [Ret EXCEPT !.op = "get_reading", !.p = p,
                              !.reading = Reading(read_value(p), now, quality)]
    /\ UNCHANGED <<transport_vars, proxies, device_vars, event_vars, async_vars,
                   now, call_vars, put_task>>

(* ------------------------------------------------------------------ *)
(* TangoTransport.connect, one await at a time                         *)
(* ------------------------------------------------------------------ *)
\* connect() is called: it starts _connect_and_store_config for the read-side
\* locator and, when the locators differ, for the write-side locator
connect_call ==
    /\ connect_task.state = "unconnected"
    /\ connect_task' =
          [connect_task EXCEPT !.state = "connecting",
                               !.attempt = 1,
                               !.co = [k \in Sides |->
                                         IF k \in connect_sides
                                         THEN "resolve" ELSE "none"]]
    /\ last' = [Ret EXCEPT !.op = "connect", !.out = "suspended"]
    /\ UNCHANGED <<init_vars, trl_configs, descriptor, polling, probe, proxies,
                   device_vars, event_vars, async_vars, now, call_vars, put_task>>

\* connect() called again on a Transport whose connect() failed: the same
\* coroutines start over on the proxies and configs the failed call left
connect_again ==
    /\ connect_task.state = "failed"
    /\ connect_task.attempt < MaxConnects
    /\ connect_task' =
          [NoConnect EXCEPT !.state = "connecting",
                            !.attempt = connect_task.attempt + 1,
                            !.co = [k \in Sides |->
                                      IF k \in connect_sides
                                      THEN "resolve" ELSE "none"]]
    /\ last' = [Ret EXCEPT !.op = "connect", !.out = "suspended"]
    /\ UNCHANGED <<init_vars, trl_configs, descriptor, polling, probe, proxies,
                   device_vars, event_vars, async_vars, now, call_vars, put_task>>

\* `self.proxies[trl] = await get_tango_trl(trl, self.proxies[trl])` of
\* coroutine k. reachable: whether `await DeviceProxy(device_trl)`, made when
\* the Transport was given no device proxy, connects to the device. When
\* self.proxies[trl] already is the proxy an earlier connect() resolved,
\* get_tango_trl takes it for the device proxy and its call of
\* get_attribute_list() raises AttributeError.
connect_resolve(k) ==
    LET trl == Side(k)
        r == get_tango_trl(trl, TangoDevice)
        step(pc, exc) ==
            connect_task' =
                [connect_task EXCEPT !.co[k] = pc, !.exc[k] = exc,
                                     !.nresolve = connect_task.nresolve + 1,
                                     !.fault = @ \/ exc = "DevFailed"]
    IN  /\ connect_task.state = "connecting"
        /\ connect_task.co[k] = "resolve"
        /\ \E reachable \in BOOLEAN :
              IF Resolved(trl)
              THEN /\ reachable
                   /\ step("raised", "AttributeError")
                   /\ UNCHANGED proxies
              ELSE IF ~reachable
              THEN /\ proxies[trl].cls = "NoneType"
                   /\ step("raised", "DevFailed")
                   /\ UNCHANGED proxies
              ELSE IF r.out = "ok"
              THEN /\ step("get_config", "")
                   /\ proxies' = [proxies EXCEPT ![trl] = r.proxy]
              ELSE /\ step("raised", r.out)
                   /\ UNCHANGED proxies
        /\ last' = [Ret EXCEPT !.op = "get_tango_trl", !.p = trl]
        /\ UNCHANGED <<init_vars, trl_configs, descriptor, polling, probe,
                       device_vars, event_vars, async_vars, now, call_vars, put_task>>

\* `self.trl_configs[trl] = await self.proxies[trl].get_config()` of
\* coroutine k. ok: whether the device answers the config request.
connect_get_config(k) ==
    LET trl == Side(k)
    IN  /\ connect_task.state = "connecting"
        /\ connect_task.co[k] = "get_config"
        /\ \E ok \in BOOLEAN :
              IF ok
              THEN /\ trl_configs' = dict_set(trl_configs, trl, dev_config[trl])
                   /\ connect_task' =
                         [connect_task EXCEPT !.co[k] = "done",
                                              !.nconfig = connect_task.nconfig + 1]
              ELSE /\ UNCHANGED trl_configs
                   /\ connect_task' =
                         [connect_task EXCEPT !.co[k] = "raised",
                                              !.exc[k] = "DevFailed",
                                              !.fault = TRUE,
                                              !.nconfig = connect_task.nconfig + 1]
        /\ last' = [Ret EXCEPT !.op = "get_config", !.p = trl]
        /\ UNCHANGED <<init_vars, descriptor, polling, probe, proxies, device_vars,
                       event_vars, async_vars, now, call_vars, put_task>>

\* wait_for_connection(read_trl=..., write_trl=...) of ophyd_async.core, once
\* both coroutines have ended: NotConnected if either raised
wait_for_connection(excs) ==
    IF \E k \in Sides : excs[k] # "" THEN "NotConnected" ELSE "ok"

\* how the coroutines connect() awaits ended: through wait_for_connection for
\* two locators, the exception of the one coroutine itself for one
connect_awaited ==
    IF connect_sides = Sides
    THEN wait_for_connection(connect_task.exc)
    ELSE IF connect_task.exc["read_trl"] # ""
    THEN connect_task.exc["read_trl"] ELSE "ok"

\* `self.descriptor = get_trl_descriptor(...)`: built from the configs stored
built_descriptor ==
    get_trl_descriptor(datatype, read_trl, trl_configs)

\* connect() ends: it raises what its coroutines made it raise, or builds
\* the descriptor and returns (or raises what get_trl_descriptor raises)
connect_return ==
    LET r == [Ret EXCEPT !.op = "connect", !.p = read_trl]
        failed(exc) ==
            /\ connect_task' = [connect_task EXCEPT !.state = "failed"]
            /\ last' = [r EXCEPT !.out = exc]
            /\ UNCHANGED descriptor
    IN  /\ connect_task.state = "connecting"
        /\ \A k \in connect_sides : connect_task.co[k] \in {"done", "raised"}
        /\ IF connect_awaited # "ok"
           THEN failed(connect_awaited)
           ELSE IF built_descriptor.out # "ok"
           THEN failed(built_descriptor.out)
           ELSE /\ descriptor' = built_descriptor.val
                /\ connect_task' = [connect_task EXCEPT !.state = "connected"]
                /\ last' = r
        /\ UNCHANGED <<init_vars, trl_configs, polling, probe, proxies, device_vars,
                       event_vars, async_vars, now, call_vars, put_task>>

\* `except CancelledError: raise NotConnected(self.source)`
on_cancelled_propagate == "CancelledError"
on_cancelled == "NotConnected"

\* connect() is cancelled while a coroutine of it waits for the device: the
\* CancelledError is raised at that await, inside the try of
\* _connect_and_store_config; with two locators it is wait_for_connection
\* that is cancelled, which cancels both coroutines and raises NotConnected
connect_cancel ==
    /\ connect_task.state = "connecting"
    /\ \E k \in connect_sides : connect_task.co[k] \in {"resolve", "get_config"}
    /\ connect_task' =
          [connect_task EXCEPT
              !.state = "failed",
              !.cancelled = TRUE,
              !.fault = TRUE,
              !.co = [k \in Sides |->
                        IF connect_task.co[k] \in {"resolve", "get_config"}
                        THEN "raised" ELSE connect_task.co[k]],
              !.exc = [k \in Sides |->
                        IF connect_task.co[k] \in {"resolve", "get_config"}
                        THEN on_cancelled ELSE connect_task.exc[k]]]
    /\ last' = [Ret EXCEPT !.op = "connect", !.p = read_trl,
                           !.out = IF connect_sides = Sides
                                   THEN "NotConnected" ELSE on_cancelled,
                           !.msg = read_trl]
    /\ UNCHANGED <<init_vars, trl_configs, descriptor, polling, probe, proxies,
                   device_vars, event_vars, async_vars, now, call_vars, put_task>>

(* ------------------------------------------------------------------ *)
(* TangoTransport: put / get_descriptor / get_reading / get_value /    *)
(* get_w_value                                                         *)
(* ------------------------------------------------------------------ *)
\* a method looked up on self.proxies[trl] while that is still the device
\* proxy (or None) the Transport was constructed with: AttributeError
not_a_proxy(op, trl) ==
    /\ ~Resolved(trl)
    /\ last' = [Ret EXCEPT !.op = op, !.p = trl, !.out = "AttributeError"]
    /\ UNCHANGED <<transport_vars, proxies, device_vars, event_vars, async_vars,
                   now, call_vars, put_task>>

\* the locator put, get_value and get_w_value go to / get_reading goes to
put_side_read == read_trl
put_side == write_trl
reading_side == read_trl

\* TangoTransport.put
TangoTransport_put(write_value, wait, timeout) ==
    \/ AttributeProxy_put(put_side, write_value, wait, timeout)
    \/ CommandProxy_put(put_side, write_value, wait, timeout)
    \/ not_a_proxy("put", put_side)

\* TangoTransport.get_value
TangoTransport_get_value ==
    \/ AttributeProxy_get(put_side)
    \/ CommandProxy_get(put_side)
    \/ not_a_proxy("get", put_side)

\* TangoTransport.get_w_value; CommandProxy inherits TangoProxy.get_w_value,
\* which has no body and returns None
TangoTransport_get_w_value ==
    \/ AttributeProxy_get_w_value(put_side)
    \/ /\ IsCommand(put_side)
       /\ last' = [Ret EXCEPT !.op = "get_w_value", !.p = put_side]
       /\ UNCHANGED <<transport_vars, proxies, device_vars, event_vars, async_vars,
                      now, call_vars, put_task>>
    \/ not_a_proxy("get_w_value", put_side)

\* TangoTransport.get_reading
TangoTransport_get_reading ==
    \/ AttributeProxy_get_reading(reading_side)
    \/ CommandProxy_get_reading(reading_side)
    \/ not_a_proxy("get_reading", reading_side)

\* TangoTransport.get_descriptor
TangoTransport_get_descriptor ==
    /\ last' = [Ret EXCEPT !.op = "get_descriptor", !.descriptor = descriptor]
    /\ UNCHANGED <<transport_vars, proxies, device_vars, event_vars, async_vars,
                   now, call_vars, put_task>>

\* reading and writing an attribute
NextAttr ==
    \/ TangoTransport_connect
    \/ \E p \in DOMAIN proxies : AttributeProxy_get(p)
    \/ \E p \in DOMAIN proxies : AttributeProxy_get_w_value(p)
    \/ \E p \in DOMAIN proxies, v \in Values, w \in BOOLEAN, t \in Timeouts :
          AttributeProxy_put(p, v, w, t)
    \/ put_reply_check
    \/ put_sleep
    \/ device_execute
    \/ device_change

SpecAttr == Init /\ [][NextAttr]_vars

\* invoking a command and reading its last result
NextCmd ==
    \/ TangoTransport_connect
    \/ \E p \in DOMAIN proxies : CommandProxy_get(p)
    \/ \E p \in DOMAIN proxies : CommandProxy_get_reading(p)
    \/ \E p \in DOMAIN proxies, v \in Values \cup {None}, w \in BOOLEAN,
          t \in Timeouts :
          CommandProxy_put(p, v, w, t)
    \/ put_reply_check
    \/ put_sleep
    \/ device_execute

SpecCmd == Init /\ [][NextCmd]_vars

\* invoking a command on a device that may fail to execute it
InitCmdFail ==
    /\ Init
    /\ read_trl = "c1"
    /\ write_trl = "c1"

NextCmdFail ==
    \/ TangoTransport_connect
    \/ \E p \in DOMAIN proxies : CommandProxy_get_reading(p)
    \/ \E p \in DOMAIN proxies, v \in Values \cup {None}, w \in BOOLEAN,
          t \in Timeouts :
          CommandProxy_put(p, v, w, t)
    \/ put_reply_check
    \/ put_sleep
    \/ device_execute
    \/ device_execute_fails

SpecCmdFail == InitCmdFail /\ [][NextCmdFail]_vars

\* put on both proxy variants
NextPut ==
    \/ TangoTransport_connect
    \/ \E p \in DOMAIN proxies, v \in Values, w \in BOOLEAN, t \in Timeouts :
          AttributeProxy_put(p, v, w, t)
    \/ \E p \in DOMAIN proxies, v \in Values \cup {None}, w \in BOOLEAN,
          t \in Timeouts :
          CommandProxy_put(p, v, w, t)
    \/ put_reply_check
    \/ put_sleep
    \/ device_execute
    \/ tick

\* the event loop resumes a suspended coroutine that is ready to run, and
\* the device executes the requests it was sent
FairPut ==
    /\ Init
    /\ [][NextPut]_vars
    /\ WF_vars(put_reply_check)
    /\ WF_vars(put_sleep)
    /\ WF_vars(device_execute)

\* configs a device may declare for its members: the attribute holds an
\* integer or a float, the command takes and returns an integer
ConnConfigs ==
    {DefaultConfig,
     [DefaultConfig EXCEPT !["a1"] = AttributeInfoEx("DevDouble", "SCALAR", 1, 0, <<>>)],
     [a1 |-> AttributeInfoEx("DevLong", "SPECTRUM", MaxDim, 0, <<>>),
      c1 |-> CommandInfo("DevVarLongArray", "DevVarLongArray")]}

\* TangoTransport.__init__ with any two locators, with or without a device
\* proxy, for a device with one of these configs
InitConn ==
    /\ read_trl \in AllTRLs
    /\ write_trl \in AllTRLs
    /\ \E cls \in {"DeviceProxy", "NoneType"} :
          proxies = [t \in {read_trl, write_trl} |-> NewProxy(cls)]
    /\ attr_value = [a \in attribute_list |-> 0]
    /\ attr_w_value = attr_value
    /\ subs = {}
    /\ subscribe_event_id = 0
    /\ cmd_returned = None
    /\ since_put = [a \in attribute_list |-> NoPut]
    /\ pending = {}
    /\ asynch_id = 0
    /\ now = 0
    /\ ncalls = 0
    /\ last_call = NoCall
    /\ put_task = NoTask
    /\ datatype = "None"
    /\ dev_config \in ConnConfigs
    /\ trl_configs = <<>>
    /\ descriptor = NoDescriptor
    /\ connect_task = NoConnect
    /\ polling = NoPolling
    /\ probe = NoProbe
    /\ executor = OwnExecutor
    /\ last = [Ret EXCEPT !.op = "__init__"]

\* connecting a Transport
NextConn ==
    \/ connect_call
    \/ \E k \in Sides : connect_resolve(k)
    \/ \E k \in Sides : connect_get_config(k)
    \/ connect_return
    \/ connect_cancel
    \/ TangoTransport_get_descriptor

SpecConn == InitConn /\ [][NextConn]_vars

\* connecting a Transport again after its connect() failed, on a device that
\* has both locators
InitRetry ==
    /\ InitConn
    /\ read_trl \in TRLs
    /\ write_trl \in TRLs
    /\ dev_config = DefaultConfig

NextRetry ==
    \/ connect_call
    \/ connect_again
    \/ \E k \in Sides : connect_resolve(k)
    \/ \E k \in Sides : connect_get_config(k)
    \/ connect_return
    \/ connect_cancel

SpecRetry == InitRetry /\ [][NextRetry]_vars

\* connecting a Transport and using it before, while and after
NextUse ==
    \/ connect_call
    \/ \E k \in Sides : connect_resolve(k)
    \/ \E k \in Sides : connect_get_config(k)
    \/ connect_return
    \/ connect_cancel
    \/ \E v \in Values, w \in BOOLEAN, t \in Timeouts : TangoTransport_put(v, w, t)
    \/ TangoTransport_get_value
    \/ TangoTransport_get_w_value
    \/ TangoTransport_get_reading
    \/ \E cb \in Callbacks \cup {None} : TangoTransport_set_callback(cb)
    \/ put_reply_check
    \/ put_sleep
    \/ device_execute

\* any two locators on a device with the default configs
InitUse ==
    /\ InitConn
    /\ dev_config = DefaultConfig

SpecUse == InitUse /\ [][NextUse]_vars

\* reading and writing through a connected Transport
NextTransport ==
    \/ TangoTransport_connect
    \/ \E v \in Values, w \in BOOLEAN, t \in Timeouts : TangoTransport_put(v, w, t)
    \/ TangoTransport_get_value
    \/ TangoTransport_get_w_value
    \/ TangoTransport_get_reading
    \/ TangoTransport_get_descriptor
    \/ put_reply_check
    \/ put_sleep
    \/ device_execute

\* any pair of locators on the device, every attribute reading 0
InitTransport ==
    /\ Init
    /\ attr_value = [a \in attribute_list |-> 0]

SpecTransport == InitTransport /\ [][NextTransport]_vars

(* ------------------------------------------------------------------ *)
(* ensure_proper_executor: proxy calls made from any execution context *)
(* ------------------------------------------------------------------ *)
\* current_executor.in_executor_context(), asked in context ctx
in_executor_context(e, ctx) == e.owner = ctx

\* set_global_executor(AsyncioExecutor()) in context ctx
set_global_executor(e, ctx) ==
    [e EXCEPT !.owner = ctx, !.installed[ctx] = @ + 1]

\* the wrapper of ensure_proper_executor, run in context ctx
install_needed(e, ctx) == ~in_executor_context(e, ctx)

ensure_proper_executor(e, ctx) ==
    IF install_needed(e, ctx) THEN set_global_executor(e, ctx) ELSE e

\* the methods of a proxy and the methods that carry @ensure_proper_executor:
\* those of AttributeProxy; on CommandProxy the decorator of put and of
\* get_config is commented out and get, get_reading have none
ProxyOps == {"get", "get_w_value", "put", "get_config", "get_reading"}
decorated(cls, op) == cls = "AttributeProxy" /\ op \in ProxyOps

\* the asynchronous call of the device proxy a method awaits ("": none)
remote_call(cls, op) ==
    IF cls = "AttributeProxy"
    THEN CASE op = "put" -> "write_attribute"
           [] op = "get_config" -> "get_attribute_config"
           [] OTHER -> "read_attribute"
    ELSE CASE op = "put" -> "command_inout"
           [] op = "get_config" -> "get_command_config"
           [] OTHER -> ""

\* method op of proxy p called in context ctx, as far as the executor goes:
\* the wrapper, when the method has one, then the remote call (what the call
\* does to the device is in the actions of the methods above)
proxy_call(ctx, p, op) ==
    LET cls == proxies[p].cls
        e == [executor EXCEPT !.caller = ctx, !.checked = decorated(cls, op)]
    IN  /\ Resolved(p)
        /\ \A c \in Contexts : executor.installed[c] < MaxInstalls
        /\ executor' = IF decorated(cls, op)
                       THEN ensure_proper_executor(e, ctx)
                       ELSE e
        /\ last' = [Ret EXCEPT !.op = op, !.p = p, !.arg = ctx,
                               !.msg = remote_call(cls, op)]
        /\ UNCHANGED <<transport_init_vars, connect_vars, polling, probe, proxies,
                       device_vars, event_vars, async_vars, now, call_vars,
                       put_task>>

NextExec ==
    \/ TangoTransport_connect
    \/ \E ctx \in Contexts, p \in DOMAIN proxies, op \in ProxyOps :
          proxy_call(ctx, p, op)

SpecExec == Init /\ [][NextExec]_vars

(* ------------------------------------------------------------------ *)
(* The module-level functions, called on their own                     *)
(* ------------------------------------------------------------------ *)
\* data types attributes declare, types commands take and return
AttrTypes == {"DevLong", "DevDouble", "DevBoolean", "DevEnum", "DevState"}
CmdTypes == {"DevVoid", "DevLong", "DevDouble", "DevVarLongArray", "DevState"}

\* the dimensions a device declares for a format: a scalar is 1 x 0, a
\* spectrum x x 0, an image x x y
DimsOf(format) ==
    IF format = "SCALAR" THEN {<<1, 0>>}
    ELSE IF format = "SPECTRUM" THEN {<<x, 0>> : x \in 1..MaxDim}
    ELSE (1..MaxDim) \X (1..MaxDim)

\* enum labels: only a DevEnum attribute has any
LabelsOf(data_type) ==
    IF data_type = "DevEnum" THEN {<<"A", "B">>, <<"A", "C">>} ELSE {<<>>}

AttributeConfigs ==
    UNION {UNION {{AttributeInfoEx(t, f, d[1], d[2], l) :
                        d \in DimsOf(f), l \in LabelsOf(t)} :
                  f \in AttrDataFormat} :
           t \in AttrTypes}
CommandConfigs == {CommandInfo(i, o) : i \in CmdTypes, o \in CmdTypes}
Configs == AttributeConfigs \cup CommandConfigs

\* the tr_configs dicts connect() can build: one config, or two under
\* different locators
ConfigDicts ==
    {<<[k |-> "r1", v |-> c]>> : c \in Configs}
    \cup {<<[k |-> "r1", v |-> c], [k |-> "w1", v |-> d]>> :
              c \in Configs, d \in Configs}

\* names a device lists as attribute, command or pipe
MemberNames == {"m1", "m2"}

no_call_vars ==
    <<init_vars, connect_vars, polling, proxies, device_vars, event_vars,
      async_vars, now, call_vars, put_task>>

\* get_pyton_type(tango_type)
call_get_pyton_type ==
    /\ probe.fn = ""
    /\ \E tango_type \in CmdArgType :
          probe' = [NoProbe EXCEPT !.fn = "get_pyton_type",
                                   !.tango_type = tango_type,
                                   !.type = get_pyton_type(tango_type)]
    /\ last' = [Ret EXCEPT !.op = "get_pyton_type"]
    /\ UNCHANGED no_call_vars

\* get_tango_trl(full_trl, device_proxy) on a device with any member lists
call_get_tango_trl ==
    /\ probe.fn = ""
    /\ \E trl_name \in MemberNames,
          attributes \in SUBSET MemberNames,
          commands \in SUBSET MemberNames,
          pipes \in SUBSET MemberNames :
          LET device_proxy == DeviceProxy(attributes, commands, pipes)
          IN  probe' = [NoProbe EXCEPT
                           !.fn = "get_tango_trl",
                           !.trl_name = trl_name,
                           !.device_proxy = device_proxy,
                           !.resolved = get_tango_trl(trl_name, device_proxy)]
    /\ last' = [Ret EXCEPT !.op = "get_tango_trl"]
    /\ UNCHANGED no_call_vars

\* get_trl_descriptor(datatype, tango_resource, tr_configs)
call_get_trl_descriptor ==
    /\ probe.fn = ""
    /\ \E dt \in Datatypes, tr_configs \in ConfigDicts :
          probe' = [NoProbe EXCEPT
                       !.fn = "get_trl_descriptor",
                       !.datatype = dt,
                       !.tr_configs = tr_configs,
                       !.built = get_trl_descriptor(dt, "r1", tr_configs)]
    /\ last' = [Ret EXCEPT !.op = "get_trl_descriptor"]
    /\ UNCHANGED no_call_vars

NextFn ==
    \/ call_get_pyton_type
    \/ call_get_tango_trl
    \/ call_get_trl_descriptor

\* one Transport, not used: each behaviour is one call of one function
InitFn ==
    /\ Init
    /\ read_trl = "a1"
    /\ write_trl = "a1"
    /\ attr_value = [a \in attribute_list |-> 0]

SpecFn == InitFn /\ [][NextFn]_vars

NextSub ==
    \/ TangoTransport_connect
    \/ \E cb \in Callbacks \cup {None} : TangoTransport_set_callback(cb)
    \/ \E p \in DOMAIN proxies, cb \in Callbacks \cup {None} :
          TangoProxy_subscribe_callback(p, cb)
    \/ \E p \in DOMAIN proxies : TangoProxy_unsubscribe_callback(p)
    \/ push_event

SpecSub == Init /\ [][NextSub]_vars

(* ------------------------------------------------------------------ *)
(* Polling fallback of the attribute proxy: set_polling and the        *)
(* periodic task                                                       *)
(* ------------------------------------------------------------------ *)
\* the period and the thresholds a caller passes: one period, a change of
\* one, or no threshold
Periods == {1}
Thresholds == {None, 1}

\* the task once cancellation was requested
poll_task_after_stop_kept(task) == task
poll_task_after_stop(task) == "none"

\* set_polling(enabled, period, abs_change, rel_change) on the read-side
\* proxy: stores the configuration; disabling cancels the periodic task.
\* Enabling starts no task: the configuration takes effect at the next
\* subscribe_callback.
AttributeProxy_set_polling(enabled, period, abs_change, rel_change) ==
    LET p == read_trl
    IN  /\ Resolved(p)
        /\ proxies[p].cls = "AttributeProxy"
        /\ polling' = [polling EXCEPT
                          !._allow_polling = enabled,
                          !._polling_period = period,
                          !._abs_change = abs_change,
                          !._rel_change = rel_change,
                          !._poll_task = IF enabled THEN @
                                         ELSE poll_task_after_stop(@)]
        /\ last' = [Ret EXCEPT !.op = "set_polling", !.p = p,
                               !.wait = enabled, !.msg = polling._poll_task]
        /\ UNCHANGED <<init_vars, connect_vars, probe, proxies, device_vars,
                       event_vars, async_vars, now, call_vars, put_task>>

\* subscribe_callback(callback) with the polling configuration: the event
\* subscription is made as before and, when polling is enabled, the periodic
\* task is started
polled_subscribe_callback(callback) ==
    LET p == read_trl
    IN  /\ Resolved(p)
        /\ proxies[p].cls = "AttributeProxy"
        /\ \E accept \in BOOLEAN :
              /\ subscribe_callback(p, callback, accept)
              /\ last' = [Ret EXCEPT !.op = "subscribe_callback", !.p = p,
                                     !.arg = callback,
                                     !.out = IF subscribe_raises(p, accept)
                                             THEN "DevFailed" ELSE "ok"]
        /\ polling' = IF polling._allow_polling
                      THEN [polling EXCEPT !._poll_task = "running",
                                           !._last_value = None]
                      ELSE polling
        /\ UNCHANGED <<init_vars, connect_vars, probe, device_vars, async_vars,
                       now, call_vars, put_task>>

\* unsubscribe_callback(): releases the event subscription as before and
\* cancels the periodic task
polled_unsubscribe_callback ==
    LET p == read_trl
    IN  /\ Resolved(p)
        /\ proxies[p].cls = "AttributeProxy"
        /\ unsubscribe_callback(p)
        /\ polling' = [polling EXCEPT !._poll_task = poll_task_after_stop(@)]
        /\ last' = [Ret EXCEPT !.op = "unsubscribe_callback", !.p = p,
                               !.msg = polling._poll_task]
        /\ UNCHANGED <<init_vars, connect_vars, probe, device_vars, async_vars,
                       now, call_vars, put_task>>

Abs(x) == IF x < 0 THEN -x ELSE x

\* whether a value read by the task is delivered: always when no threshold
\* is set and for the first value read, otherwise when it moved by at least
\* a threshold that is set
beyond_thresholds(value) ==
    LET diff == Abs(value - polling._last_value)
    IN  \/ polling._last_value = None
        \/ polling._abs_change = None /\ polling._rel_change = None
        \/ polling._abs_change # None /\ diff >= polling._abs_change /\ diff > 0
        \/ /\ polling._rel_change # None
           /\ diff >= polling._rel_change * Abs(polling._last_value)
           /\ diff > 0

\* one period of the task: re-read the attribute and invoke the callback
\* with the reading when the value is to be delivered
AttributeProxy_poll ==
    LET p == read_trl
        value == read_value(p)
        r == [Ret EXCEPT !.op = "poll", !.p = p, !.val = value]
    IN  /\ polling._poll_task = "running"
        /\ IF beyond_thresholds(value) /\ proxies[p]._event_callback # None
           THEN /\ ncalls < MaxCalls
                /\ ncalls' = ncalls + 1
                /\ last_call' = [cb |-> proxies[p]._event_callback,
                                 reading |-> Reading(value, now, ATTR_VALID),
                                 value |-> value]
                /\ polling' = [polling EXCEPT !._last_value = value,
                                              !.delivered = TRUE]
                /\ last' = [r EXCEPT !.arg = proxies[p]._event_callback]
           ELSE /\ UNCHANGED <<call_vars, polling>>
                /\ last' = r
        /\ UNCHANGED <<init_vars, connect_vars, probe, proxies, device_vars,
                       event_vars, async_vars, now, put_task>>

NextPoll ==
    \/ TangoTransport_connect
    \/ \E enabled \in BOOLEAN, period \in Periods, abs_change \in Thresholds,
          rel_change \in Thresholds :
          AttributeProxy_set_polling(enabled, period, abs_change, rel_change)
    \/ \E cb \in Callbacks : polled_subscribe_callback(cb)
    \/ polled_unsubscribe_callback
    \/ AttributeProxy_poll
    \/ device_change

\* a Transport on one attribute, read and written through the same locator
InitPoll ==
    /\ Init
    /\ read_trl = "a1"
    /\ write_trl = "a1"

SpecPoll == InitPoll /\ [][NextPoll]_vars

(* ------------------------------------------------------------------ *)
(* Properties of the subscription operations (checked under SpecSub)   *)
(* ------------------------------------------------------------------ *)
\* the live server subscriptions that deliver to proxy p
SubsOf(p) == {s \in subs : s.p = p}
\* proxy p holds a handle
Held(p) == proxies[p]._eid # None

\* C1: on a connected Transport whose read-side proxy holds a subscription,
\* set_callback(cb2) with a non-empty callback fails with the "already set"
\* assertion and leaves the held handle, the stored callback and the server's
\* subscriptions as they were; and in every state at most one server
\* subscription delivers to the read-side endpoint.
C1_SecondCallbackRejected ==
    /\ [](Cardinality(SubsOf(read_trl)) <= 1)
    /\ [][(/\ last'.op = "set_callback"
           /\ bool(last'.arg)
           /\ IsAttribute(read_trl)
           /\ Held(read_trl))
          => (/\ last'.out = "AssertionError"
              /\ last'.msg = "already set"
              /\ proxies' = proxies
              /\ subs' = subs)]_vars

\* a set_callback(cb2) was refused while another callback stays registered
C1_Witness ==
    /\ last.op = "set_callback"
    /\ last.out = "AssertionError"
    /\ last.msg = "already set"
    /\ Held(read_trl)
    /\ proxies[read_trl]._event_callback \in Callbacks \ {last.arg}
    /\ Cardinality(SubsOf(read_trl)) = 1

\* C2: set_callback (with a callback or with None) on a Transport whose
\* read-side proxy is a CommandProxy fails with the "does not support events"
\* assertion and changes no proxy and no server subscription.
C2_CommandReadSideUnsupported ==
    [][(last'.op = "set_callback" /\ IsCommand(read_trl))
       => (/\ last'.out = "AssertionError"
           /\ last'.msg = "does not support events"
           /\ proxies' = proxies
           /\ UNCHANGED event_vars)]_vars

\* set_callback(cb) was refused on a command read side next to an attribute
\* write side
C2_Witness ==
    /\ last.op = "set_callback"
    /\ bool(last.arg)
    /\ IsCommand(read_trl)
    /\ IsAttribute(write_trl)
    /\ last.out = "AssertionError"

\* C3: an attribute proxy's subscription state moves unsubscribed ->
\* subscribed only by a subscribe_callback / set_callback(cb) that returned,
\* and subscribed -> unsubscribed only by unsubscribe_callback /
\* set_callback(None); has_subscription() is true after every
\* subscribe_callback that returned and false after every
\* unsubscribe_callback; a set_callback(cb2) issued right after an
\* unsubscribe is never refused as already set and, when the server accepts
\* it, holds a handle the library never handed out before.
C3_SubscriptionCycle ==
    /\ [][\A p \in DOMAIN proxies : IsAttribute(p) =>
            /\ (~has_subscription(p) /\ has_subscription(p)')
                  => (/\ last'.op \in {"subscribe_callback", "set_callback"}
                      /\ last'.out = "ok"
                      /\ last'.p = p)
            /\ (has_subscription(p) /\ ~has_subscription(p)')
                  => (/\ last'.op \in {"unsubscribe_callback", "set_callback"}
                      /\ last'.p = p)]_vars
    /\ [][\A p \in DOMAIN proxies :
            (/\ last'.op = "subscribe_callback"
             /\ last'.out = "ok"
             /\ last'.p = p
             /\ IsAttribute(p))
            => has_subscription(p)']_vars
    /\ [][\A p \in DOMAIN proxies :
            (last'.op = "unsubscribe_callback" /\ last'.p = p /\ IsAttribute(p))
            => ~has_subscription(p)']_vars
    /\ [][(/\ last.op = "unsubscribe_callback"
           /\ last.p = read_trl
           /\ IsAttribute(read_trl)
           /\ last'.op = "set_callback"
           /\ bool(last'.arg))
          => (/\ last'.out \in {"ok", "RuntimeError"}
              /\ last'.out = "ok" =>
                   (/\ has_subscription(read_trl)'
                    /\ proxies'[read_trl]._eid > subscribe_event_id
                    /\ SubsOf(read_trl)' =
                         {[eid |-> proxies'[read_trl]._eid, p |-> read_trl]}))]_vars

\* a second subscription was opened after the first was released
C3_Witness ==
    /\ last.op = "set_callback"
    /\ last.out = "ok"
    /\ IsAttribute(read_trl)
    /\ has_subscription(read_trl)
    /\ subscribe_event_id >= 2
    /\ Cardinality(subs) = 1

C5_EventDelivery ==
    [][last'.op = "_event_processor" =>
          IF last'.ev.err
          THEN /\ UNCHANGED <<proxies, event_vars, call_vars>>
               /\ last'.out = "ok"
          ELSE proxies[last'.p]._event_callback # None =>
                  /\ Held(last'.p)
                  /\ ncalls' = ncalls + 1
                  /\ last_call' =
                       [cb |-> proxies[last'.p]._event_callback,
                        reading |-> Reading(last'.ev.value, last'.ev.date,
                                            last'.ev.quality),
                        value |-> last'.ev.value]
                  /\ proxies' = proxies]_vars

\* an errored update arrived after a delivered one and was dropped
C5_Witness ==
    /\ last.op = "_event_processor"
    /\ last.ev.err
    /\ ncalls = 1
    /\ last_call.cb \in Callbacks
    /\ last_call.value \in Values
    /\ last_call.reading.alarm_severity = ATTR_INVALID

C7_PutGetRoundTrip ==
    /\ []((/\ last.op = "get"
           /\ IsAttribute(last.p)
           /\ since_put[last.p].v # None
           /\ ~since_put[last.p].drifted)
          => last.val = since_put[last.p].v)
    /\ [][attr_value' # attr_value
            => last'.op \in {"put", "device_execute", "device_change"}]_vars

\* get() returned the value of a put that changed the attribute
C7_Witness ==
    /\ last.op = "get"
    /\ IsAttribute(last.p)
    /\ since_put[last.p].v = last.val
    /\ ~since_put[last.p].drifted
    /\ \E q \in pending : q.ready /\ q.p = last.p

\* C8: once put(v) (the call with the default wait=True) has returned and
\* until the attribute is written again, get_w_value() returns v, also after
\* the device changed the read value and a get() returned that other value;
\* a get() leaves the set point untouched.
C8_WrittenValueKept ==
    /\ []((/\ last.op = "get_w_value"
           /\ IsAttribute(last.p)
           /\ since_put[last.p].v # None)
          => last.val = since_put[last.p].v)
    /\ [][last'.op = "get" => attr_w_value' = attr_w_value]_vars

\* get_w_value() returned v after a get() had returned another value
C8_Witness ==
    /\ last.op = "get_w_value"
    /\ IsAttribute(last.p)
    /\ since_put[last.p].seen
    /\ since_put[last.p].drifted
    /\ last.val = since_put[last.p].v
    /\ last.val # attr_value[last.p]

(* ------------------------------------------------------------------ *)
(* Properties of the reply loop of put (checked under FairPut)         *)
(* ------------------------------------------------------------------ *)
\* time elapsed since the suspended put was called
Elapsed == now - put_task.t0

\* C9: a put(value, wait=False, timeout=t) that entered its reply loop ends:
\* it returns or raises, it does not poll for ever.
C9_PutTerminates ==
    [](put_task.pc # "idle" => <>(put_task.pc = "idle"))

\* C10: a reply check made once the caller's timeout has elapsed, with the
\* reply not yet available, ends the put with a timeout failure.
C10_TimeoutSurfaced ==
    [][(/\ put_task.pc = "reply"
        /\ Elapsed >= put_task.timeout
        /\ ~Request(put_task.rid).ready
        /\ put_task' # put_task)
       => (/\ put_task'.pc = "idle"
           /\ last'.op = "put"
           /\ last'.out = "TimeoutError")]_vars

(* ------------------------------------------------------------------ *)
(* Properties of connect (checked under SpecConn)                      *)
(* ------------------------------------------------------------------ *)
\* connect() came to its end (it returned or raised)
ConnectEnded == last.op = "connect" /\ last.out # "suspended"
Locators == {read_trl, write_trl}
ConfigStored(t) == \E i \in DOMAIN trl_configs : trl_configs[i] = [k |-> t, v |-> dev_config[t]]

\* C11: a connect that is not cancelled resolves every distinct locator
\* exactly once (two resolutions and up to two config fetches for different
\* locators, one resolution and at most one fetch for equal ones); with
\* different locators it raises NotConnected when either coroutine failed;
\* whenever it raises the descriptor stays the empty dict; when it returns
\* every locator is resolved, its config is stored and the descriptor built
\* from the stored configs for the read-side locator is cached.
C11_Connect ==
    /\ connect_task.nresolve <= Cardinality(Locators)
    /\ connect_task.nconfig <= connect_task.nresolve
    /\ (ConnectEnded /\ ~connect_task.cancelled)
       => connect_task.nresolve = Cardinality(Locators)
    /\ (/\ ConnectEnded
        /\ ~connect_task.cancelled
        /\ read_trl # write_trl
        /\ \E k \in Sides : connect_task.co[k] = "raised")
       => last.out = "NotConnected"
    /\ (ConnectEnded /\ last.out # "ok") => descriptor = NoDescriptor
    /\ (ConnectEnded /\ last.out = "ok")
       => /\ connect_task.nconfig = Cardinality(Locators)
          /\ \A t \in Locators : Resolved(t) /\ ConfigStored(t)
          /\ Len(trl_configs) = Cardinality(Locators)
          /\ descriptor.keys # {}
          /\ descriptor.source = read_trl
          /\ descriptor = get_trl_descriptor(datatype, read_trl, trl_configs).val

\* with different locators the read side connected and the write side did
\* not: connect raised NotConnected
C11_Witness ==
    /\ ConnectEnded
    /\ read_trl # write_trl
    /\ connect_task.co["read_trl"] = "done"
    /\ connect_task.co["write_trl"] = "raised"
    /\ last.out = "NotConnected"
    /\ trl_configs # <<>>

\* C12: a connect cancelled while it waits for the device (for the device
\* connection, the resolution or the config fetch, of either locator) raises
\* NotConnected carrying the read-side locator, and never a CancelledError.
C12_CancelledConnect ==
    /\ connect_task.cancelled
       => (connect_task.state = "failed" /\ descriptor = NoDescriptor)
    /\ (ConnectEnded /\ connect_task.cancelled)
       => (last.out = "NotConnected" /\ last.msg = read_trl)
    /\ ConnectEnded => last.out # "CancelledError"

\* one locator, cancelled during the config fetch
C12_Witness ==
    /\ ConnectEnded
    /\ connect_task.cancelled
    /\ read_trl = write_trl
    /\ connect_task.nresolve = 1
    /\ connect_task.nconfig = 0
    /\ Resolved(read_trl)

(* ------------------------------------------------------------------ *)
(* Properties of a Transport in use (checked under SpecUse)            *)
(* ------------------------------------------------------------------ *)
\* put, get_value, get_w_value, get_reading and set_callback, by the name
\* the call leaves in `last`
TransportOps == {"put", "get", "get_w_value", "get_reading", "set_callback"}

\* C13: the connection state only moves unconnected -> connecting ->
\* connected or failed; before connect is called and once connect has
\* raised (also when only one of two locators failed), put, get_value,
\* get_w_value, get_reading and set_callback all end in an error.
\* (Calls made while connect is still in flight are left aside.)
C13_OperationsByState ==
    /\ [][connect_task'.state # connect_task.state
            => \/ /\ connect_task.state = "unconnected"
                  /\ connect_task'.state = "connecting"
               \/ /\ connect_task.state = "connecting"
                  /\ connect_task'.state \in {"connected", "failed"}]_vars
    /\ []((last.op \in TransportOps /\ connect_task.state = "unconnected")
            => last.out \notin {"ok", "suspended"})
    /\ []((last.op \in TransportOps /\ connect_task.state = "failed")
            => last.out \notin {"ok", "suspended"})

(* ------------------------------------------------------------------ *)
(* Properties of delegation (checked under SpecTransport)              *)
(* ------------------------------------------------------------------ *)
\* what the device and the Transport hold for locator t
SideState(t) ==
    [proxy |-> proxies[t],
     value |-> IF t \in attribute_list THEN attr_value[t] ELSE cmd_returned,
     w_value |-> IF t \in attribute_list THEN attr_w_value[t] ELSE None]

\* C14: put, get_value and get_w_value run on the write-side proxy and
\* get_reading on the read-side proxy, returning what that proxy holds;
\* get_descriptor returns the cached descriptor and changes nothing; with
\* different locators a put leaves the read-side proxy and its device member
\* as they were, and get_reading changes nothing of the write side; with
\* equal locators the Transport holds one proxy.
C14_Delegation ==
    /\ [](last.op \in {"put", "get", "get_w_value"} => last.p = write_trl)
    /\ [](last.op = "get_reading" => last.p = read_trl)
    /\ [](last.op = "get"
            => last.val = IF IsAttribute(write_trl) THEN attr_value[write_trl]
                          ELSE proxies[write_trl]._last_reading.value)
    /\ []((last.op = "get_w_value" /\ IsAttribute(write_trl))
            => last.val = attr_w_value[write_trl])
    /\ [](last.op = "get_reading"
            => IF IsAttribute(read_trl)
               THEN last.reading.value = attr_value[read_trl]
               ELSE last.reading = proxies[read_trl]._last_reading)
    /\ [](last.op = "get_descriptor" => last.descriptor = descriptor)
    /\ [][last'.op = "get_descriptor"
            => UNCHANGED <<proxies, device_vars, transport_vars>>]_vars
    /\ [][(last'.op = "put" /\ read_trl # write_trl)
            => SideState(read_trl)' = SideState(read_trl)]_vars
    /\ [][(last'.op = "get_reading" /\ read_trl # write_trl)
            => SideState(write_trl)' = SideState(write_trl)]_vars
    /\ [](read_trl = write_trl => DOMAIN proxies = {read_trl})

\* a put through a Transport reading an attribute and writing a command
\* changed the command proxy's reading
C14_Witness ==
    /\ last.op = "put"
    /\ last.out = "ok"
    /\ read_trl # write_trl
    /\ IsCommand(write_trl)
    /\ IsAttribute(read_trl)
    /\ proxies[write_trl]._last_reading.value \in Values

(* ------------------------------------------------------------------ *)
(* Properties of the module-level functions (checked under SpecFn)     *)
(* ------------------------------------------------------------------ *)
\* get_trl_descriptor was called with two configs, c and d below
BuiltFromTwo == probe.fn = "get_trl_descriptor" /\ Len(probe.tr_configs) = 2
\* the descriptor a config yields when it is the only one supplied
Alone(config) == get_trl_descriptor("None", "r1", <<[k |-> "r1", v |-> config]>>)

\* the tag, the format and the (dtype, descr) a config is mapped by
ConfigTag(config) ==
    IF config.cls = "AttributeInfoEx" THEN config.data_type
    ELSE IF config.in_type # "DevVoid" THEN config.in_type ELSE config.out_type
ConfigFormat(config) ==
    IF config.cls = "AttributeInfoEx" THEN config.data_format
    ELSE IF ConfigTag(config) \in ArrayTypes THEN "SPECTRUM" ELSE "SCALAR"
Mappable(config) == Alone(config).out = "ok"
TriplesDiffer(c, d) ==
    \/ ConfigFormat(c) # ConfigFormat(d)
    \/ get_pyton_type(ConfigTag(c)).dtype # get_pyton_type(ConfigTag(d)).dtype
    \/ get_pyton_type(ConfigTag(c)).descr # get_pyton_type(ConfigTag(d)).descr

C16_ShapeInference ==
    (probe.fn = "get_trl_descriptor" /\ probe.built.out = "ok")
    => LET config == probe.tr_configs[1].v
           max_x == IF config.cls = "AttributeInfoEx" THEN config.max_dim_x ELSE Inf
           max_y == IF config.cls = "AttributeInfoEx" THEN config.max_dim_y ELSE Inf
           d == probe.built.val
       IN  /\ ConfigFormat(config) = "SCALAR"
              => (d.shape = <<>> /\ d.dtype = get_pyton_type(ConfigTag(config)).descr)
           /\ ConfigFormat(config) = "SPECTRUM"
              => (d.shape = <<max_x>> /\ d.dtype = "array")
           /\ ConfigFormat(config) = "IMAGE"
              => (d.shape = <<max_y, max_x>> /\ d.dtype = "array")
           /\ d.source = "r1"

\* an image attribute with more columns than rows
C16_Witness ==
    /\ probe.fn = "get_trl_descriptor"
    /\ probe.built.out = "ok"
    /\ probe.tr_configs[1].v.data_format = "IMAGE"
    /\ probe.tr_configs[1].v.max_dim_x > probe.tr_configs[1].v.max_dim_y
    /\ probe.built.val.shape =
          <<probe.tr_configs[1].v.max_dim_y, probe.tr_configs[1].v.max_dim_x>>

\* C17: a command config whose input and output types are both not DevVoid
\* and differ makes the construction fail with the RuntimeError "Commands
\* with different in and out dtypes are not supported"; a single command
\* config with a DevVoid input or output is mapped by its other type.
C17_CommandTypes ==
    /\ (/\ probe.fn = "get_trl_descriptor"
        /\ \E i \in DOMAIN probe.tr_configs :
              LET config == probe.tr_configs[i].v
              IN  /\ config.cls = "CommandInfo"
                  /\ config.in_type # "DevVoid"
                  /\ config.out_type # "DevVoid"
                  /\ config.in_type # config.out_type)
       => probe.built.out = "RuntimeError"
    /\ (/\ probe.fn = "get_trl_descriptor"
        /\ Len(probe.tr_configs) = 1
        /\ probe.datatype = "None"
        /\ probe.tr_configs[1].v.cls = "CommandInfo"
        /\ "DevVoid" \in {probe.tr_configs[1].v.in_type,
                          probe.tr_configs[1].v.out_type})
       => LET config == probe.tr_configs[1].v
              other == IF config.in_type = "DevVoid"
                       THEN config.out_type ELSE config.in_type
          IN  /\ probe.built.out = "ok"
              /\ probe.built.val.dtype =
                    IF other \in ArrayTypes THEN "array"
                    ELSE get_pyton_type(other).descr
              /\ probe.built.val.shape =
                    IF other \in ArrayTypes THEN <<Inf>> ELSE <<>>

\* a command taking an integer and returning a float
C17_Witness ==
    /\ probe.fn = "get_trl_descriptor"
    /\ Len(probe.tr_configs) = 1
    /\ probe.tr_configs[1].v.cls = "CommandInfo"
    /\ probe.tr_configs[1].v.in_type = "DevLong"
    /\ probe.tr_configs[1].v.out_type = "DevDouble"
    /\ probe.built.out = "RuntimeError"

\* C18: get_tango_trl looks the member up in the attribute list, then in
\* the command list, then in the pipe list: the first list that holds it
\* decides; an attribute gives an AttributeProxy, a command a CommandProxy,
\* a pipe fails as unsupported (NotImplementedError), anything else fails as
\* not found (RuntimeError), and the two failures hand back no proxy.
C18_ResolutionOrder ==
    probe.fn = "get_tango_trl"
    => LET d == probe.device_proxy
           r == probe.resolved
       IN  IF probe.trl_name \in d.attribute_list
           THEN r.out = "ok" /\ r.proxy.cls = "AttributeProxy"
           ELSE IF probe.trl_name \in d.command_list
           THEN r.out = "ok" /\ r.proxy.cls = "CommandProxy"
           ELSE IF probe.trl_name \in d.pipe_list
           THEN r.out = "NotImplementedError"
                /\ r.proxy.cls \notin {"AttributeProxy", "CommandProxy"}
           ELSE r.out = "RuntimeError"
                /\ r.proxy.cls \notin {"AttributeProxy", "CommandProxy"}

\* the supported table: tag, is-array, scalar kind, description
TypeTable ==
    {
      <<"DevVoid", FALSE, "NoneType", "string">>,
      <<"DevBoolean", FALSE, "bool", "integer">>,
      <<"DevShort", FALSE, "int", "integer">>,
      <<"DevLong", FALSE, "int", "integer">>,
      <<"DevFloat", FALSE, "float", "number">>,
      <<"DevDouble", FALSE, "float", "number">>,
      <<"DevUShort", FALSE, "int", "integer">>,
      <<"DevULong", FALSE, "int", "integer">>,
      <<"DevString", FALSE, "str", "string">>,
      <<"DevVarCharArray", TRUE, "list[str]", "string">>,
      <<"DevVarShortArray", TRUE, "int", "integer">>,
      <<"DevVarLongArray", TRUE, "int", "integer">>,
      <<"DevVarFloatArray", TRUE, "float", "number">>,
      <<"DevVarDoubleArray", TRUE, "float", "number">>,
      <<"DevVarUShortArray", TRUE, "int", "integer">>,
      <<"DevVarULongArray", TRUE, "int", "integer">>,
      <<"DevVarStringArray", TRUE, "str", "string">>,
      <<"DevState", FALSE, "DevState", "string">>,
      <<"ConstDevString", FALSE, "str", "string">>,
      <<"DevVarBooleanArray", TRUE, "bool", "integer">>,
      <<"DevUChar", FALSE, "int", "integer">>,
      <<"DevLong64", FALSE, "int", "integer">>,
      <<"DevULong64", FALSE, "int", "integer">>,
      <<"DevVarLong64Array", TRUE, "int", "integer">>,
      <<"DevVarULong64Array", TRUE, "int", "integer">>,
      <<"DevEncoded", FALSE, "list[str]", "string">>,
      <<"DevEnum", FALSE, "Enum", "string">>
    }

SupportedTags == {row[1] : row \in TypeTable}

\* C19: get_pyton_type maps every tag of the supported table to the row of
\* that tag, whatever was mapped before (the result depends on the tag
\* alone); the array flag is that of the tag whatever the element kind is;
\* a tag outside the table raises TypeError("Unknown TangoType").
C19_TypeMapper ==
    probe.fn = "get_pyton_type"
    => LET t == probe.type
       IN  /\ probe.tango_type \in SupportedTags
              => /\ t.out = "ok"
                 /\ <<probe.tango_type, t.array, t.dtype, t.descr>> \in TypeTable
           /\ probe.tango_type \notin SupportedTags => t.out = "TypeError"
           /\ t.out = "ok" => t.array = (probe.tango_type \in ArrayTypes)

\* the byte array: an array whose element kind is the binary one
C19_Witness ==
    /\ probe.fn = "get_pyton_type"
    /\ probe.tango_type = "DevVarCharArray"
    /\ probe.type = TypeOf(TRUE, "list[str]", "string")

C21_CallbackSwapped ==
    /\ [][\A p \in DOMAIN proxies :
            (/\ last'.op = "subscribe_callback"
             /\ last'.p = p
             /\ IsAttribute(p)
             /\ Held(p))
            => (/\ last'.out = "ok"
                /\ proxies'[p]._event_callback = last'.arg
                /\ proxies'[p]._eid = proxies[p]._eid
                /\ subs' = subs
                /\ subscribe_event_id' = subscribe_event_id)]_vars
    /\ [][(last'.op = "_event_processor" /\ ncalls' # ncalls)
          => (/\ last_call'.cb = proxies[last'.p]._event_callback
              /\ ncalls' = ncalls + 1)]_vars

\* cb2 was registered over a handle under which another callback had been
\* served, the only subscription ever opened
C21_Witness ==
    /\ last.op = "subscribe_callback"
    /\ last.out = "ok"
    /\ last.arg \in Callbacks
    /\ IsAttribute(last.p)
    /\ Held(last.p)
    /\ proxies[last.p]._event_callback = last.arg
    /\ ncalls = 1
    /\ last_call.cb \in Callbacks \ {last.arg}
    /\ subscribe_event_id = 1
    /\ Cardinality(subs) = 1

\* C22: unsubscribe_callback() on an attribute proxy that holds a handle
\* removes exactly the server subscription of that handle, drops the handle
\* and clears the stored callback; with no handle held it leaves the server's
\* subscriptions alone and clears the stored callback; a second call right
\* after the first changes nothing.
C22_Unsubscribe ==
    /\ [][\A p \in DOMAIN proxies :
            (last'.op = "unsubscribe_callback" /\ last'.p = p /\ IsAttribute(p))
            => (/\ last'.out = "ok"
                /\ proxies'[p]._eid = None
                /\ proxies'[p]._event_callback = None
                /\ subscribe_event_id' = subscribe_event_id
                /\ IF Held(p)
                   THEN /\ [eid |-> proxies[p]._eid, p |-> p] \in subs
                        /\ subs' = subs \ {[eid |-> proxies[p]._eid, p |-> p]}
                   ELSE subs' = subs)]_vars
    /\ [][\A p \in DOMAIN proxies :
            (/\ last.op = "unsubscribe_callback"
             /\ last.p = p
             /\ last'.op = "unsubscribe_callback"
             /\ last'.p = p)
            => (proxies' = proxies /\ UNCHANGED event_vars)]_vars

\* unsubscribe_callback() returned on a proxy whose one handle was released
C22_Witness ==
    /\ last.op = "unsubscribe_callback"
    /\ IsAttribute(last.p)
    /\ ~Held(last.p)
    /\ proxies[last.p]._event_callback = None
    /\ subscribe_event_id = 1
    /\ subs = {}

(* ------------------------------------------------------------------ *)
(* The reply loop of an asynchronous put (checked under SpecAttr)      *)
(* ------------------------------------------------------------------ *)
\* C23: in the reply loop of put only a reply that has not arrived yet
\* (AsynchReplyNotArrived) sends the loop to its sleep; a reply check that
\* raises anything else ends the put; and two reply checks never follow each
\* other without the sleep between them.
C23_OnlyNotReadyRetried ==
    /\ [][(/\ last'.op = "put_reply_check"
           /\ last'.out \notin {"ok", "AsynchReplyNotArrived"})
          => put_task' = NoTask]_vars
    /\ [][(put_task.pc = "sleep" /\ put_task'.pc # "sleep")
          => (last'.op = "put_sleep" /\ put_task'.pc = "reply")]_vars
    /\ [][(last'.op = "put_reply_check" /\ last'.out = "AsynchReplyNotArrived")
          => put_task'.pc = "sleep"]_vars

(* ------------------------------------------------------------------ *)
(* Connecting again (checked under SpecRetry)                          *)
(* ------------------------------------------------------------------ *)
\* C24: on a device that has both locators, a connect() called after a
\* failed one, during which the device is reachable and answers and which
\* is not cancelled, brings the Transport to connected.
C24_FreshConnectSucceeds ==
    [][(/\ connect_task.state = "connecting"
        /\ connect_task'.state \in {"connected", "failed"}
        /\ connect_task.attempt > 1
        /\ ~connect_task'.fault)
       => (connect_task'.state = "connected" /\ last'.out = "ok")]_vars

(* ------------------------------------------------------------------ *)
(* The global executor (checked under SpecExec)                        *)
(* ------------------------------------------------------------------ *)
\* C25: every proxy method that awaits a remote call ran the executor check
\* first, so that the remote call is issued with the global executor
\* belonging to the calling context.
C25_CheckedBeforeRemoteCall ==
    [][(last'.op \in ProxyOps /\ last'.msg # "")
       => (/\ executor'.checked
           /\ in_executor_context(executor', executor'.caller))]_vars

\* C26: no context ever has more than one executor created for it, whatever
\* contexts the calls come from.
C26_InstalledOncePerContext ==
    \A c \in Contexts : executor.installed[c] <= 1

(* ------------------------------------------------------------------ *)
(* Rejected subscriptions and updates between calls (checked under     *)
(* SpecSub)                                                            *)
(* ------------------------------------------------------------------ *)
\* C27 as stated: a set_callback(cb) the server rejects fails with the "use
\* as non-cached" RuntimeError and leaves the read-side proxy with no handle
\* and no stored callback.
C27_RejectedLeavesNoCallback ==
    [][(last'.op = "set_callback" /\ last'.out = "RuntimeError")
       => (/\ last'.msg = "use as non-cached"
           /\ ~Held(read_trl)'
           /\ proxies'[read_trl]._event_callback = None)]_vars

\* C27: a set_callback(cb) the server rejects fails with the "use as
\* non-cached" RuntimeError, holds no handle, reports no subscription and
\* leaves the server's subscriptions as they were; the proxy keeps cb as its
\* stored callback.
C27_RejectedKeepsCallback ==
    [][(last'.op = "set_callback" /\ last'.out = "RuntimeError")
       => (/\ last'.msg = "use as non-cached"
           /\ bool(last'.arg)
           /\ ~Held(read_trl)'
           /\ ~has_subscription(read_trl)'
           /\ UNCHANGED event_vars
           /\ proxies'[read_trl]._event_callback = last'.arg
           /\ proxies' = [proxies EXCEPT ![read_trl]._event_callback = last'.arg])]_vars

\* the server rejected the subscription of a callback, which the proxy keeps
C27_Witness ==
    /\ last.op = "set_callback"
    /\ last.out = "RuntimeError"
    /\ last.msg = "use as non-cached"
    /\ last.arg \in Callbacks
    /\ proxies[read_trl]._event_callback = last.arg
    /\ proxies[read_trl]._eid = None
    /\ subs = {}

\* C28: whatever subscribe_callback / unsubscribe_callback calls precede the
\* delivery of an update, an attribute proxy that holds a handle stores a
\* callback, and _event_processor never finds None in place of the callback
\* it calls.
C28_NoAbsentCallback ==
    /\ [](\A p \in DOMAIN proxies :
            (IsAttribute(p) /\ Held(p)) => proxies[p]._event_callback # None)
    /\ [][last'.op = "_event_processor" => last'.out # "TypeError"]_vars

(* ------------------------------------------------------------------ *)
(* The order in which the two configs arrive (checked under SpecConn)  *)
(* ------------------------------------------------------------------ *)
\* the configs stored, had the two get_config() calls ended the other way
\* round
OtherOrder(configs) ==
    [i \in 1..Len(configs) |-> configs[Len(configs) + 1 - i]]

\* C29: the descriptor a connect() with two different locators caches is the
\* one it would have cached had the two configs arrived in the other order.
C29_OrderIndependent ==
    (connect_task.state = "connected" /\ read_trl # write_trl)
    => /\ Len(trl_configs) = 2
       /\ descriptor =
             get_trl_descriptor(datatype, read_trl, OtherOrder(trl_configs)).val

(* ------------------------------------------------------------------ *)
(* A command that fails on the device (checked under SpecCmdFail)      *)
(* ------------------------------------------------------------------ *)
\* the reply to the request the suspended put waits for is there and holds
\* a failure
ReplyFailed ==
    /\ put_task.pc = "reply"
    /\ \E q \in pending : q.rid = put_task.rid /\ q.ready /\ q.val = Failure

\* C30: a put on a command proxy whose invocation fails ends by raising
\* DevFailed and leaves _last_reading as it was: a synchronous put at once,
\* a put in its reply loop at the reply check that finds the failure.
C30_FailedPutKeepsReading ==
    /\ [][(last'.op = "put" /\ IsCommand(last'.p) /\ last'.out = "DevFailed")
          => proxies' = proxies]_vars
    /\ [][(ReplyFailed /\ IsCommand(put_task.p) /\ put_task' # put_task)
          => (/\ put_task' = NoTask
              /\ last'.op = "put"
              /\ last'.out = "DevFailed"
              /\ proxies' = proxies)]_vars

====
